---- MODULE Spec2Model ----
(***************************************************************************)
(* A model of the snapshot engine of tc-cache: the entry model and its     *)
(* equality, the diff of two entry sequences, the archive writer and       *)
(* reader over a byte stream, pack/unpack over a small POSIX filesystem,   *)
(* and the pull/push orchestrators over the working directory.             *)
(*                                                                         *)
(* Paths are sequences of component numbers (<<1, 2>> is "/1/2"); bytes,   *)
(* CBOR items and timestamps are naturals.                                 *)
(***************************************************************************)
EXTENDS Integers, Sequences, FiniteSets, TLC

VARIABLES
    left,           \* diff: the "previous" entry sequence handed to diff
    right,          \* diff: the "current" entry sequence handed to diff
    differences,    \* diff: the HashSet<Diff> returned
    diffDone,       \* diff: whether diff has been applied to (left, right)
    entryA,         \* equality: the first entry compared
    entryB,         \* equality: the second entry compared
    eqResult,       \* equality: the outcome of comparing them, once done
    tree,           \* the filesystem: path -> node
    clock,          \* the wall clock, in seconds
    privileged,     \* whether the process may override permission bits
    atimeUpdates,   \* whether the mount updates a file's atime on read
    roots,          \* pack: the cached directories handed to pack
    archives,       \* pack: the archives written so far, in order
    restored,       \* unpack: the outcome of the unpack, once done
    work,           \* the working directory: snapshot.snappy and the json files
    remote,         \* the object stored under the snapshot key
    service,        \* what the CI service configures: a backend, uploadable
    prefixArg,      \* the --prefix the pulls are given
    runs,           \* the pull and push runs so far, each with its outcome
    edited,         \* per run, and for the next one: was the tree changed
                    \* after the run before it
    reading,        \* reader: the stream handed to Reading and how far it got
    sized,          \* entry: the length handed to Entry::file and the result
    detected,       \* services: the environment and what from_env returned
    conv,           \* bytes: a u32, its four bytes and the u32 read back
    walkCall,       \* walk: the call of walk_into_vec or read_entries
    injector,       \* walk: the jobs injected into the thread pool, in order
    deques,         \* walk: per pool thread, the jobs it has pushed
    threads,        \* walk: per pool thread, what it is running
    channels,       \* walk: per Entry::walk, its channel and its bridge
    copying,        \* pack: the entries walked, the stream, and how far the copy got
    multipart,      \* s3: the multi-part upload of one file and how far it got
    stats,          \* stats: the counters of the shared Stats, the threads rendering it
    unpacking       \* unpack: an archive, its destination, and the unpacks made of it

diffVars == <<left, right, differences, diffDone>>

eqVars == <<entryA, entryB, eqResult>>

envVars == <<tree, clock, privileged, atimeUpdates>>

packVars == <<roots, archives, restored>>

runVars == <<work, remote, service, prefixArg, runs, edited>>

bytesVars == <<conv>>

walkVars == <<walkCall, injector, deques, threads, channels>>

copyVars == <<copying>>

uploadVars == <<multipart>>

statsVars == <<stats>>

unpackVars == <<unpacking>>

\* the state of the components that are exercised on their own
jobVars == <<bytesVars, walkVars, copyVars, uploadVars, statsVars, unpackVars>>

callVars == <<reading, sized, detected, jobVars>>

\* everything but jobVars
mainVars == <<diffVars, eqVars, envVars, packVars, runVars, reading, sized, detected>>

\* everything but the variables of one component
bytesRest == <<mainVars, walkVars, copyVars, uploadVars, statsVars, unpackVars>>
walkRest == <<diffVars, eqVars, packVars, runVars, reading, sized, detected, bytesVars, copyVars, uploadVars, statsVars, unpackVars>>
copyRest == <<diffVars, eqVars, packVars, runVars, reading, sized, detected, bytesVars, walkVars, uploadVars, statsVars, unpackVars>>
uploadRest == <<diffVars, eqVars, packVars, runVars, reading, sized, detected, bytesVars, walkVars, copyVars, statsVars, unpackVars>>
statsRest == <<diffVars, eqVars, packVars, runVars, reading, sized, detected, bytesVars, walkVars, copyVars, uploadVars, unpackVars>>
unpackRest == <<diffVars, eqVars, packVars, runVars, reading, sized, detected, bytesVars, walkVars, copyVars, uploadVars, statsVars>>

vars == <<left, right, differences, diffDone, entryA, entryB, eqResult,
          tree, clock, privileged, atimeUpdates, roots, archives, restored,
          work, remote, service, prefixArg, runs, edited,
          reading, sized, detected, conv,
          walkCall, injector, deques, threads, channels,
          copying,
          multipart,
          stats,
          unpacking>>

----------------------------------------------------------------------------
(* Bounds of the model.                                                    *)

\* longest entry sequence handed to diff
MaxDiffLen == 2

\* largest timestamp (seconds) of the model's clock
MaxTime == 1

\* most archives packed from one tree
MaxPacks == 2

\* most pull and push runs in one working directory
MaxRuns == 3

\* how many times the build changes the tree between runs
MaxEdits == 1

----------------------------------------------------------------------------
(* POSIX mode words: st_mode = file type bits + permission bits.           *)

S_IFDIR == 4 * 4096
S_IFREG == 8 * 4096
S_IFLNK == 10 * 4096

\* permission bits rwxr-xr-x, r-xr-xr-x, rw-r--r--, r--r--r--, rwxrwxrwx
Perm755 == 7 * 64 + 5 * 8 + 5
Perm555 == 5 * 64 + 5 * 8 + 5
Perm644 == 6 * 64 + 4 * 8 + 4
Perm444 == 4 * 64 + 4 * 8 + 4
Perm777 == 7 * 64 + 7 * 8 + 7

----------------------------------------------------------------------------
(* Entry model (snapshot/entry.rs).                                        *)

\* Attributes::new
Attributes(mode, atime, mtime) == [mode |-> mode, atime |-> atime, mtime |-> mtime]

\* hashing::md5: the digest of a byte sequence, taken to be collision free:
\* the digest of b is its length followed by b, distinct for distinct b.
md5_bytes(bytes) == <<Len(bytes)>> \o bytes

\* Entry::File / Entry::Symlink / Entry::Dir with the serde tag "_t"
EntryFile(path, attr, md5, len) ==
    [t |-> "f", path |-> path, attr |-> attr, md5 |-> md5, len |-> len]
EntrySymlink(path, target, attr) ==
    [t |-> "s", path |-> path, target |-> target, attr |-> attr]
EntryDir(path, attr) ==
    [t |-> "d", path |-> path, attr |-> attr]

\* Entry::as_path
as_path(entry) == entry.path

\* a mutant of AttributesEq: the timestamps take part in the comparison
AttributesEqWithTimes(a, b) ==
    a.mode = b.mode /\ a.mtime = b.mtime /\ a.atime = b.atime

\* impl PartialEq for Attributes: only the mode is compared
AttributesEq(a, b) == a.mode = b.mode

\* impl Hash for Attributes: only the mode is written to the hasher
AttributesHash(a) == <<a.mode>>

\* a mutant of EntryEq: the md5 of files is left out of the comparison
EntryEqNoMd5(a, b) ==
    /\ a.t = b.t
    /\ a.path = b.path
    /\ AttributesEq(a.attr, b.attr)
    /\ (a.t = "f" => a.len = b.len)
    /\ (a.t = "s" => a.target = b.target)

\* #[derive(PartialEq)] for Entry: same variant, and every field equal under
\* its own equality (Attributes by AttributesEq)
EntryEq(a, b) ==
    /\ a.t = b.t
    /\ a.path = b.path
    /\ AttributesEq(a.attr, b.attr)
    /\ (a.t = "f" => a.md5 = b.md5 /\ a.len = b.len)
    /\ (a.t = "s" => a.target = b.target)

\* #[derive(Hash)] for Entry: the variant, then every field's hash in order
EntryHash(a) ==
    CASE a.t = "f" -> <<"f", a.path, AttributesHash(a.attr), a.md5, a.len>>
      [] a.t = "s" -> <<"s", a.path, a.target, AttributesHash(a.attr)>>
      [] OTHER     -> <<"d", a.path, AttributesHash(a.attr)>>

----------------------------------------------------------------------------
(* Diff (snapshot/diff.rs).                                                *)

Added(path)   == [d |-> "Added", path |-> path]
Removed(path) == [d |-> "Removed", path |-> path]
Changed(l, r) == [d |-> "Changed", left |-> l, right |-> r]

\* #[derive(PartialEq)] for Diff
DiffEq(x, y) ==
    /\ x.d = y.d
    /\ IF x.d = "Changed"
       THEN EntryEq(x.left, y.left) /\ EntryEq(x.right, y.right)
       ELSE x.path = y.path

\* HashSet<Diff>::insert: an element equal to one of the set is not added
HashSetInsert(set, x) ==
    IF \E y \in set : DiffEq(x, y) THEN set ELSE set \cup {x}

\* HashSet<Diff>::extend, element by element
RECURSIVE HashSetExtend(_, _)
HashSetExtend(set, items) ==
    IF items = {} THEN set
    ELSE LET x == CHOOSE y \in items : TRUE
         IN HashSetExtend(HashSetInsert(set, x), items \ {x})

\* right.iter().map(|it| (it.as_ref(), it)).collect::<HashMap>(): a later
\* entry of the same path replaces an earlier one
DiffMap(entries) ==
    [p \in {as_path(entries[i]) : i \in DOMAIN entries} |->
        LET last == CHOOSE i \in DOMAIN entries :
                        /\ as_path(entries[i]) = p
                        /\ \A j \in DOMAIN entries :
                              as_path(entries[j]) = p => j <= i
        IN entries[last]]

\* HashMap::remove(key)
MapRemove(map, key) == [p \in DOMAIN map \ {key} |-> map[p]]

\* the loop `for entry in left` of diff, from index i on, and its epilogue
RECURSIVE diffLoop(_, _, _, _, _)
diffLoop(l, i, only_right, only_left, diffs) ==
    IF i > Len(l)
    THEN HashSetExtend(HashSetExtend(diffs, {Removed(p) : p \in only_left}),
                       {Added(p) : p \in DOMAIN only_right})
    ELSE LET left_value == l[i]
             left_key   == as_path(left_value)
         IN IF left_key \in DOMAIN only_right
            THEN LET right_value == only_right[left_key]
                 IN diffLoop(l, i + 1, MapRemove(only_right, left_key), only_left,
                             IF ~EntryEq(right_value, left_value)
                             THEN HashSetInsert(diffs, Changed(left_value, right_value))
                             ELSE diffs)
            ELSE diffLoop(l, i + 1, only_right, only_left \cup {left_key}, diffs)

\* a mutant of diff: the entries left in only_right are not reported as Added
diffNoAdded(l, r) ==
    {x \in diffLoop(l, 1, DiffMap(r), {}, {}) : x.d # "Added"}

\* pub fn diff(left, right) -> HashSet<Diff>
diff(l, r) == diffLoop(l, 1, DiffMap(r), {}, {})

----------------------------------------------------------------------------
(* Byte-encoded lengths (bytes.rs) and the archive constants               *)
(* (snapshot/constants.rs).                                                *)

\* u32 and usize values are naturals below 2^31; a u32 from 2^31 up is
\* represented by 2^31 - 1 (no stream of the model is that long)
U16 == 256 * 256
U32Top == 127 * (U16 * 256) + (U16 * 256 - 1)

\* `n as u32`
AsU32(n) == ((n \div U16) % U16) * U16 + (n % U16)

\* u32::try_from(n).is_ok()
FitsU32(n) == n \div U16 < U16

\* impl IntoLeBytes for u32: [b4, b3, b2, b1]
into_le_bytes(u) ==
    LET b1 == (u \div (U16 * 256)) % 256
        b2 == (u \div U16) % 256
        b3 == (u \div 256) % 256
        b4 == u % 256
    IN <<b4, b3, b2, b1>>

\* a mutant of from_le_bytes: the bytes are taken in big-endian order
from_be_bytes(buf) ==
    IF buf[1] % 256 >= 128 THEN U32Top
    ELSE (buf[4] % 256) + (buf[3] % 256) * 256 + (buf[2] % 256) * U16
         + (buf[1] % 256) * (U16 * 256)

\* impl FromLeBytes<u32> for u32
from_le_bytes(buf) ==
    IF buf[4] % 256 >= 128 THEN U32Top
    ELSE (buf[1] % 256) + (buf[2] % 256) * 256 + (buf[3] % 256) * U16
         + (buf[4] % 256) * (U16 * 256)

\* VERSION: A0 F1 B2 01
VERSION == <<160, 241, 178, 1>>
VERSION_LEN == 4
MEM_MAP_THRESHOLD == 65536

----------------------------------------------------------------------------
(* The metadata record (serde_cbor over #[serde(tag = "_t")] Entry): one   *)
(* stream cell per data item, the fields in declaration order, every       *)
(* sequence preceded by its length.                                        *)

TagOf(t) == CASE t = "f" -> 102 [] t = "s" -> 115 [] OTHER -> 100

EncodeAttr(a) == <<a.mode, a.atime, a.mtime>>
EncodeSeq(q) == <<Len(q)>> \o q

\* serde_cbor::to_vec(entry)
to_vec(e) ==
    CASE e.t = "f" -> <<TagOf("f")>> \o EncodeSeq(e.path) \o EncodeAttr(e.attr)
                         \o EncodeSeq(e.md5) \o <<e.len>>
      [] e.t = "s" -> <<TagOf("s")>> \o EncodeSeq(e.path) \o EncodeSeq(e.target)
                         \o EncodeAttr(e.attr)
      [] OTHER     -> <<TagOf("d")>> \o EncodeSeq(e.path) \o EncodeAttr(e.attr)

\* the length-prefixed sequence that starts at cell i of b, if there is one
SeqAt(b, i) ==
    IF i <= Len(b) /\ i + b[i] <= Len(b)
    THEN [ok |-> TRUE, val |-> SubSeq(b, i + 1, i + b[i]), next |-> i + b[i] + 1]
    ELSE [ok |-> FALSE, val |-> <<>>, next |-> i]

AttrAt(b, i) == Attributes(b[i], b[i + 1], b[i + 2])

DecodeFailed == [ok |-> FALSE, entry |-> [t |-> "none"]]

\* serde_cbor::from_slice::<Entry>(buf): the record, or a decode error
from_slice(b) ==
    IF Len(b) < 2 \/ b[1] \notin {TagOf("f"), TagOf("s"), TagOf("d")}
    THEN DecodeFailed
    ELSE LET path == SeqAt(b, 2)
         IN IF ~path.ok THEN DecodeFailed
            ELSE CASE b[1] = TagOf("d") ->
                        IF Len(b) = path.next + 2
                        THEN [ok |-> TRUE, entry |-> EntryDir(path.val, AttrAt(b, path.next))]
                        ELSE DecodeFailed
                   [] b[1] = TagOf("s") ->
                        LET target == SeqAt(b, path.next)
                        IN IF target.ok /\ Len(b) = target.next + 2
                           THEN [ok |-> TRUE,
                                 entry |-> EntrySymlink(path.val, target.val,
                                                        AttrAt(b, target.next))]
                           ELSE DecodeFailed
                   [] OTHER ->
                        IF Len(b) < path.next + 3 THEN DecodeFailed
                        ELSE LET md5 == SeqAt(b, path.next + 3)
                             IN IF md5.ok /\ Len(b) = md5.next
                                THEN [ok |-> TRUE,
                                      entry |-> EntryFile(path.val, AttrAt(b, path.next),
                                                          md5.val, b[md5.next])]
                                ELSE DecodeFailed

----------------------------------------------------------------------------
(* Archive writer (snapshot/writing.rs): the writer is the decompressed    *)
(* stream written so far.                                                  *)

\* Writing::from -> write_version
write_version(out) == out \o VERSION

\* a mutant of write_entry: the four bytes of the length are not counted
write_entry_meta_only(out, entry) ==
    LET meta  == to_vec(entry)
        bytes == into_le_bytes(AsU32(Len(meta)))
    IN [out |-> out \o bytes \o meta, written |-> Len(meta)]

\* Writing::write_entry: (stream, bytes written)
write_entry(out, entry) ==
    LET meta  == to_vec(entry)
        bytes == into_le_bytes(AsU32(Len(meta)))
    IN [out |-> out \o bytes \o meta, written |-> Len(bytes) + Len(meta)]

----------------------------------------------------------------------------
(* Archive reader (snapshot/reading.rs): the reader is the decompressed    *)
(* stream, a position in it, and whether the compressed file is damaged    *)
(* after the last decodable frame (a read past the data then fails with an *)
(* error that is not UnexpectedEof).                                       *)

Reader(data, damaged) == [data |-> data, pos |-> 0, damaged |-> damaged]

\* Read::read_exact(&mut buf[..n])
read_exact(rd, n) ==
    IF n <= Len(rd.data) - rd.pos
    THEN [ok |-> TRUE, kind |-> "none",
          bytes |-> SubSeq(rd.data, rd.pos + 1, rd.pos + n),
          rd |-> [rd EXCEPT !.pos = @ + n]]
    ELSE [ok |-> FALSE, kind |-> IF rd.damaged THEN "Other" ELSE "UnexpectedEof",
          bytes |-> <<>>,
          rd |-> [rd EXCEPT !.pos = Len(rd.data)]]

\* a mutant of check_version: any four bytes are accepted
check_version_any(rd) ==
    LET r == read_exact(rd, VERSION_LEN)
    IN [ok |-> r.ok, rd |-> r.rd]

\* Reading::check_version
check_version(rd) ==
    LET r == read_exact(rd, VERSION_LEN)
    IN [ok |-> r.ok /\ r.bytes = VERSION, rd |-> r.rd]

\* Reading::read_entry: status "some" (entry, len), "none" or "err"
read_entry(rd) ==
    LET head == read_exact(rd, 4)
    IN IF ~head.ok
       THEN [status |-> IF head.kind = "UnexpectedEof" THEN "none" ELSE "err",
             entry |-> [t |-> "none"], len |-> 0, rd |-> head.rd]
       ELSE LET len  == from_le_bytes(head.bytes)
                body == read_exact(head.rd, len)
                dec  == from_slice(body.bytes)
            IN IF body.ok /\ dec.ok
               THEN [status |-> "some", entry |-> dec.entry,
                     len |-> Len(body.bytes) + 4, rd |-> body.rd]
               ELSE [status |-> "err", entry |-> [t |-> "none"], len |-> 0, rd |-> body.rd]

\* Reading::copy_to(dst, len): the bytes handed to dst, or an error
copy_to(rd, len) ==
    LET r == read_exact(rd, len)
    IN [ok |-> r.ok, bytes |-> r.bytes, written |-> Len(r.bytes), rd |-> r.rd]

\* a mutant of skip: the payload is left in the stream
skip_nothing(rd, len) == [ok |-> TRUE, rd |-> rd]

\* Reading::skip(len): copy_to with a null sink
skip(rd, len) ==
    LET r == copy_to(rd, len)
    IN [ok |-> r.ok, rd |-> r.rd]

----------------------------------------------------------------------------
(* The filesystem the program runs on: a function from the existing paths  *)
(* to their nodes. "/" (the empty path) is a directory outside the map     *)
(* that only a privileged process may write to. A process creates          *)
(* directories with mode 0755 and files with mode 0644 (umask 022).        *)

Node(kind, mode, atime, mtime, bytes, target) ==
    [kind |-> kind, mode |-> mode, atime |-> atime, mtime |-> mtime,
     bytes |-> bytes, target |-> target]

Parent(p) == SubSeq(p, 1, Len(p) - 1)

\* Path::starts_with: r is a component-wise prefix of p
starts_with(p, r) == Len(r) <= Len(p) /\ SubSeq(p, 1, Len(r)) = r

Exists(f, p) == p \in DOMAIN f
IsDir(f, p) == p = <<>> \/ (Exists(f, p) /\ f[p].kind = "d")

\* the owner's write and read permission bits
OwnerWrite(mode) == (mode \div 128) % 2 = 1
OwnerRead(mode) == (mode \div 256) % 2 = 1

DirWritable(f, p, priv) == priv \/ (p # <<>> /\ OwnerWrite(f[p].mode))

Put(f, p, node) == [q \in DOMAIN f \cup {p} |-> IF q = p THEN node ELSE f[q]]

\* creating or removing a name in directory p sets p's mtime
TouchDir(f, p, now) == IF p = <<>> THEN f ELSE [f EXCEPT ![p].mtime = now]

\* the path an open(2), chmod(2) or utimes(2) of p acts on: a symlink is
\* followed (one level; targets are absolute paths)
Resolve(f, p) ==
    IF Exists(f, p) /\ f[p].kind = "s" THEN f[p].target ELSE p

\* the path component "..", which a path read from an archive may hold
DotDot == 0

\* the path with every ".." resolved against the component before it
\* ("/.." is "/"), as path resolution does when those components are
\* directories
RECURSIVE CanonFrom(_, _)
CanonFrom(done, rest) ==
    IF rest = <<>> THEN done
    ELSE IF Head(rest) = DotDot THEN CanonFrom(Parent(done), Tail(rest))
    ELSE CanonFrom(Append(done, Head(rest)), Tail(rest))

Canon(p) == CanonFrom(<<>>, p)

\* every ".." of p follows a directory
Traversable(f, p) ==
    \A k \in DOMAIN p :
        p[k] = DotDot => IsDir(f, Canon(SubSeq(p, 1, k - 1)))

FsFail(f, touched) == [ok |-> FALSE, fs |-> f, touched |-> touched]
FsOk(f, touched) == [ok |-> TRUE, fs |-> f, touched |-> touched]

\* mkdir(2)
mkdir(f, p, now, priv) ==
    IF Exists(f, p) \/ ~IsDir(f, Parent(p)) \/ ~DirWritable(f, Parent(p), priv)
    THEN FsFail(f, {})
    ELSE FsOk(Put(TouchDir(f, Parent(p), now), p,
                  Node("d", S_IFDIR + Perm755, now, now, <<>>, <<>>)),
              {p, Parent(p)} \ {<<>>})

\* fs::create_dir_all(path): every missing ancestor is created, top down
RECURSIVE create_dir_all_from(_, _, _, _, _, _)
create_dir_all_from(f, p, k, now, priv, touched) ==
    IF k > Len(p) THEN FsOk(f, touched)
    ELSE LET q == Canon(SubSeq(p, 1, k))
         IN IF q = <<>> \/ Exists(f, q)
            THEN IF IsDir(f, Resolve(f, q))
                 THEN create_dir_all_from(f, p, k + 1, now, priv, touched)
                 ELSE FsFail(f, touched)
            ELSE LET r == mkdir(f, q, now, priv)
                 IN IF r.ok
                    THEN create_dir_all_from(r.fs, p, k + 1, now, priv,
                                             touched \cup r.touched)
                    ELSE FsFail(f, touched)

create_dir_all(f, p, now, priv) == create_dir_all_from(f, p, 1, now, priv, {})

\* std::os::unix::fs::symlink(target, path): fails if path exists
symlink(f, target, path, now, priv) ==
    LET p == Canon(path)
    IN IF ~Traversable(f, path) \/ p = <<>> \/ Exists(f, p)
          \/ ~IsDir(f, Parent(p)) \/ ~DirWritable(f, Parent(p), priv)
       THEN FsFail(f, {})
       ELSE FsOk(Put(TouchDir(f, Parent(p), now), p,
                     Node("s", S_IFLNK + Perm777, now, now, <<>>, target)),
                 {p, Parent(p)} \ {<<>>})

\* OpenOptions read + write + truncate + create, then write_all(bytes): an
\* existing file is truncated (its owner needs write permission), a missing
\* one is created in its directory
open_and_write(f, path, bytes, now, priv) ==
    LET p == Resolve(f, Canon(path))
    IN IF ~Traversable(f, path) \/ p = <<>> THEN FsFail(f, {})
       ELSE IF Exists(f, p)
       THEN IF f[p].kind = "f" /\ (priv \/ OwnerWrite(f[p].mode))
            THEN FsOk([f EXCEPT ![p].bytes = bytes, ![p].mtime = now], {p})
            ELSE FsFail(f, {})
       ELSE IF IsDir(f, Parent(p)) /\ DirWritable(f, Parent(p), priv)
            THEN FsOk(Put(TouchDir(f, Parent(p), now), p,
                          Node("f", S_IFREG + Perm644, now, now, bytes, <<>>)),
                      {p, Parent(p)} \ {<<>>})
            ELSE FsFail(f, {})

\* fs::set_permissions: chmod(2) sets the permission bits, keeps the type
set_permissions(f, p, mode) ==
    [f EXCEPT ![p].mode = ((@ \div 4096) * 4096) + (mode % 4096)]

\* filetime::set_file_times
set_file_times(f, p, atime, mtime) ==
    [f EXCEPT ![p].atime = atime, ![p].mtime = mtime]

\* a mutant of restore_attributes: the mode is not restored
restore_times_only(f, path, attr) ==
    IF ~Traversable(f, path) \/ ~Exists(f, Canon(path))
       \/ ~Exists(f, Resolve(f, Canon(path)))
    THEN FsFail(f, {})
    ELSE LET p == Resolve(f, Canon(path))
         IN FsOk(set_file_times(f, p, attr.atime, attr.mtime), {p})

\* unpack.rs restore_attributes(path, attr)
restore_attributes(f, path, attr) ==
    IF ~Traversable(f, path) \/ ~Exists(f, Canon(path))
       \/ ~Exists(f, Resolve(f, Canon(path)))
    THEN FsFail(f, {})
    ELSE LET p == Resolve(f, Canon(path))
         IN FsOk(set_file_times(set_permissions(f, p, attr.mode), p,
                                attr.atime, attr.mtime), {p})

----------------------------------------------------------------------------
(* Path order and the walker (snapshot/entry.rs).                          *)

\* PathBuf's Ord: component by component, a proper prefix first
RECURSIVE PathLess(_, _)
PathLess(a, b) ==
    IF b = <<>> THEN FALSE
    ELSE IF a = <<>> THEN TRUE
    ELSE IF a[1] # b[1] THEN a[1] < b[1]
    ELSE PathLess(Tail(a), Tail(b))

\* the paths of S in ascending order
RECURSIVE PathsAscending(_)
PathsAscending(S) ==
    IF S = {} THEN <<>>
    ELSE LET m == CHOOSE x \in S : \A y \in S \ {x} : PathLess(x, y)
         IN <<m>> \o PathsAscending(S \ {m})

RECURSIVE Flatten(_)
Flatten(seqs) == IF seqs = <<>> THEN <<>> ELSE Head(seqs) \o Flatten(Tail(seqs))

Reverse(q) == [i \in 1 .. Len(q) |-> q[Len(q) + 1 - i]]

Children(f, p) == {q \in DOMAIN f : Len(q) = Len(p) + 1 /\ Parent(q) = p}

\* WalkDir::new(dir).follow_links(false): dir, then what lies below it,
\* depth first; a symlink is yielded and not entered
RECURSIVE WalkDir(_, _)
WalkDir(f, p) ==
    <<p>> \o (IF f[p].kind = "d"
              THEN LET kids == PathsAscending(Children(f, p))
                   IN Flatten([i \in 1 .. Len(kids) |-> WalkDir(f, kids[i])])
              ELSE <<>>)

\* the items the producer of Entry::walk sends for the roots: Ok(path), or
\* the Err of a root that cannot be walked, after which it stops
RECURSIVE WalkItems(_, _)
WalkItems(f, dirs) ==
    IF dirs = <<>> THEN <<>>
    ELSE IF ~Exists(f, Head(dirs)) THEN <<[err |-> TRUE, path |-> Head(dirs)]>>
    ELSE LET paths == WalkDir(f, Head(dirs))
         IN [i \in 1 .. Len(paths) |-> [err |-> FALSE, path |-> paths[i]]]
            \o WalkItems(f, Tail(dirs))

\* From<Metadata> for Attributes
AttributesFrom(node) == Attributes(node.mode, node.atime, node.mtime)

\* reading the content of p sets its atime where the mount updates atimes
ReadBumpsAtime(f, p, now, relatime) ==
    IF relatime THEN [f EXCEPT ![p].atime = now] ELSE f

\* Entry::try_from_path: the entry of path as the filesystem is now; a
\* file is opened and hashed
try_from_path(f, path, now, relatime, priv) ==
    IF ~Exists(f, path) THEN [ok |-> FALSE, entry |-> [t |-> "none"], fs |-> f]
    ELSE LET meta == f[path]
         IN CASE meta.kind = "s" ->
                   [ok |-> TRUE, fs |-> f,
                    entry |-> EntrySymlink(path, meta.target, AttributesFrom(meta))]
              [] meta.kind = "d" ->
                   [ok |-> TRUE, fs |-> f,
                    entry |-> EntryDir(path, AttributesFrom(meta))]
              [] meta.kind = "f" ->
                   IF (priv \/ OwnerRead(meta.mode)) /\ FitsU32(Len(meta.bytes))
                   THEN [ok |-> TRUE,
                         fs |-> ReadBumpsAtime(f, path, now, relatime),
                         entry |-> EntryFile(path, AttributesFrom(meta),
                                             md5_bytes(meta.bytes), Len(meta.bytes))]
                   ELSE [ok |-> FALSE, entry |-> [t |-> "none"], fs |-> f]
              [] OTHER -> [ok |-> FALSE, entry |-> [t |-> "none"], fs |-> f]

\* the workers of Entry::walk: every item turned into an entry, one after
\* the other; the first Err ends it
RECURSIVE EntriesOf(_, _, _, _, _, _)
EntriesOf(f, items, acc, now, relatime, priv) ==
    IF items = <<>> THEN [ok |-> TRUE, entries |-> acc, fs |-> f]
    ELSE IF Head(items).err THEN [ok |-> FALSE, entries |-> <<>>, fs |-> f]
    ELSE LET r == try_from_path(f, Head(items).path, now, relatime, priv)
         IN IF r.ok
            THEN EntriesOf(r.fs, Tail(items), Append(acc, r.entry), now, relatime, priv)
            ELSE [ok |-> FALSE, entries |-> <<>>, fs |-> r.fs]

\* entries.sort_by_key(path): a stable sort, here by insertion
RECURSIVE InsertByPath(_, _)
InsertByPath(sorted, e) ==
    IF sorted = <<>> THEN <<e>>
    ELSE IF PathLess(as_path(e), as_path(Head(sorted)))
         THEN <<e>> \o sorted
         ELSE <<Head(sorted)>> \o InsertByPath(Tail(sorted), e)

\* a mutant of sort_by_key: the entries stay in the order they were folded
keep_order(entries) == entries

RECURSIVE sort_by_key(_)
sort_by_key(entries) ==
    IF entries = <<>> THEN <<>>
    ELSE InsertByPath(sort_by_key(SubSeq(entries, 1, Len(entries) - 1)),
                      entries[Len(entries)])

\* a mutant of walk_into_vec: the entries are returned as collected
walk_unsorted(f, dirs, now, relatime, priv, order) ==
    LET r == EntriesOf(f, WalkItems(f, dirs), <<>>, now, relatime, priv)
    IN [r EXCEPT !.entries = Reverse(@)]

\* Entry::walk_into_vec(dirs): walk, fold/reduce in the order the workers
\* deliver ("fwd": as enumerated, "rev": the opposite), sort by path
walk_into_vec(f, dirs, now, relatime, priv, order) ==
    LET r == EntriesOf(f, WalkItems(f, dirs), <<>>, now, relatime, priv)
    IN [r EXCEPT !.entries = sort_by_key(IF order = "rev" THEN Reverse(@) ELSE @)]

----------------------------------------------------------------------------
(* Packing (snapshot/pack.rs, snapshot/writing.rs).                        *)

\* n zero bytes
Zeros(n) == [i \in 1 .. n |-> 0]

\* a mutant of write_file: the file is copied to its end, whatever len says
write_file_whole(out, bytes, len, fault) ==
    [ok |-> TRUE, out |-> out \o bytes, written |-> len]

\* Writing::write_file(file, path, len): len bytes of the file appended to
\* the stream. Below MEM_MAP_THRESHOLD read_exact fills a buffer of len
\* bytes, and a file shorter than len is an error. From the threshold on
\* the first len bytes of the file are mapped and the mapping is written:
\* past the end of a shorter file the mapping reads as zeros up to the end
\* of the file's last page, and beyond that page the access is a SIGBUS
\* that ends the process (fault: len reaches beyond that page).
write_file(out, bytes, len, fault) ==
    IF len = 0 THEN [ok |-> TRUE, out |-> out, written |-> 0]
    ELSE IF len < MEM_MAP_THRESHOLD
    THEN IF Len(bytes) < len THEN [ok |-> FALSE, out |-> out, written |-> 0]
         ELSE [ok |-> TRUE, out |-> out \o SubSeq(bytes, 1, len), written |-> len]
    ELSE IF Len(bytes) >= len
    THEN [ok |-> TRUE, out |-> out \o SubSeq(bytes, 1, len), written |-> len]
    ELSE IF fault \/ bytes = <<>>
    THEN [ok |-> FALSE, out |-> out, written |-> 0]
    ELSE [ok |-> TRUE, out |-> out \o bytes \o Zeros(len - Len(bytes)),
          written |-> len]

\* pack.rs read_entries(dirs): the walk of every root, collected and sorted
read_entries(f, dirs, now, relatime, priv, order) ==
    walk_into_vec(f, dirs, now, relatime, priv, order)

\* the loop of Pack::pack over the entries from position i
RECURSIVE packLoop(_, _, _, _, _, _, _, _)
packLoop(out, f, entries, i, written, now, relatime, priv) ==
    IF i > Len(entries)
    THEN [ok |-> TRUE, out |-> out, fs |-> f, written |-> written]
    ELSE LET entry == entries[i]
             we    == write_entry(out, entry)
         IN IF entry.t # "f"
            THEN packLoop(we.out, f, entries, i + 1, written + we.written,
                          now, relatime, priv)
            ELSE LET path == Resolve(f, entry.path)
                 IN IF ~Exists(f, path) \/ f[path].kind # "f"
                       \/ ~(priv \/ OwnerRead(f[path].mode))
                    THEN [ok |-> FALSE, out |-> we.out, fs |-> f,
                          written |-> written + we.written]
                    ELSE LET wf == write_file(we.out, f[path].bytes, entry.len, TRUE)
                             g  == IF entry.len = 0 THEN f
                                   ELSE ReadBumpsAtime(f, path, now, relatime)
                         IN IF wf.ok
                            THEN packLoop(wf.out, g, entries, i + 1,
                                          written + we.written + wf.written,
                                          now, relatime, priv)
                            ELSE [ok |-> FALSE, out |-> wf.out, fs |-> g,
                                  written |-> written + we.written]

\* Pack::pack(dirs) on a writer whose stream so far is out
pack(out, f, dirs, now, relatime, priv, order) ==
    LET w == read_entries(f, dirs, now, relatime, priv, order)
    IN IF w.ok
       THEN packLoop(out, w.fs, w.entries, 1, 0, now, relatime, priv)
       ELSE [ok |-> FALSE, out |-> out, fs |-> w.fs, written |-> 0]

----------------------------------------------------------------------------
(* Unpacking (snapshot/unpack.rs).                                         *)

NoPrefix == [some |-> FALSE, path |-> <<>>]
SomePrefix(path) == [some |-> TRUE, path |-> path]

\* unpack.rs is_include(dirs, path)
is_include(dirs, path) == \E i \in DOMAIN dirs : starts_with(path, dirs[i])

\* unpack.rs prefixed(prefix)(path): the leading "/" of the absolute path
\* is stripped and the rest joined to the prefix
prefixed(prefix, path) == IF prefix.some THEN prefix.path \o path ELSE path

\* unpack.rs unpack_file(snapshot, dst, len): dst is created or truncated,
\* then the payload copied into it
unpack_file(rd, f, dst, len, now, priv) ==
    LET opened == open_and_write(f, dst, <<>>, now, priv)
        copied == copy_to(rd, len)
    IN IF ~opened.ok
       THEN [ok |-> FALSE, fs |-> f, touched |-> {}, rd |-> rd, written |-> 0]
       ELSE IF ~copied.ok
       THEN [ok |-> FALSE, fs |-> opened.fs, touched |-> opened.touched,
             rd |-> copied.rd, written |-> 0]
       ELSE [ok |-> TRUE, fs |-> open_and_write(f, dst, copied.bytes, now, priv).fs,
             touched |-> opened.touched, rd |-> copied.rd,
             written |-> copied.written]

UnpackResult(ok, entries, read, f, touched, rd) ==
    [ok |-> ok, entries |-> entries, read |-> read, fs |-> f,
     touched |-> touched, rd |-> rd]

\* the loop of Unpack::unpack
RECURSIVE unpackLoop(_, _, _, _, _, _, _, _, _)
unpackLoop(rd, f, entries, read, touched, prefix, dirs, now, priv) ==
    LET re == read_entry(rd)
    IN IF re.status = "none"
       THEN UnpackResult(TRUE, entries, read, f, touched, re.rd)
       ELSE IF re.status = "err"
       THEN UnpackResult(FALSE, <<>>, 0, f, touched, re.rd)
       ELSE LET entry == re.entry
                path  == prefixed(prefix, entry.path)
            IN IF ~is_include(dirs, entry.path)
               THEN IF entry.t = "f"
                    THEN LET sk == skip(re.rd, entry.len)
                         IN IF sk.ok
                            THEN unpackLoop(sk.rd, f, entries, read + re.len,
                                            touched, prefix, dirs, now, priv)
                            ELSE UnpackResult(FALSE, <<>>, 0, f, touched, sk.rd)
                    ELSE unpackLoop(re.rd, f, entries, read + re.len,
                                    touched, prefix, dirs, now, priv)
               ELSE CASE entry.t = "d" ->
                         LET made == create_dir_all(f, path, now, priv)
                             attr == IF made.ok
                                     THEN restore_attributes(made.fs, path, entry.attr)
                                     ELSE FsFail(made.fs, {})
                         IN IF made.ok /\ attr.ok
                            THEN unpackLoop(re.rd, attr.fs, Append(entries, entry),
                                            read + re.len,
                                            touched \cup made.touched \cup attr.touched,
                                            prefix, dirs, now, priv)
                            ELSE UnpackResult(FALSE, <<>>, 0, attr.fs,
                                              touched \cup made.touched, re.rd)
                    [] entry.t = "s" ->
                         LET made == symlink(f, entry.target, path, now, priv)
                         IN IF made.ok
                            THEN unpackLoop(re.rd, made.fs, Append(entries, entry),
                                            read + re.len, touched \cup made.touched,
                                            prefix, dirs, now, priv)
                            ELSE UnpackResult(FALSE, <<>>, 0, f, touched, re.rd)
                    [] OTHER ->
                         LET file == unpack_file(re.rd, f, path, entry.len, now, priv)
                             attr == IF file.ok
                                     THEN restore_attributes(file.fs, path, entry.attr)
                                     ELSE FsFail(file.fs, {})
                         IN IF file.ok /\ attr.ok
                            THEN unpackLoop(file.rd, attr.fs, Append(entries, entry),
                                            read + re.len + file.written,
                                            touched \cup file.touched \cup attr.touched,
                                            prefix, dirs, now, priv)
                            ELSE UnpackResult(FALSE, <<>>, 0, attr.fs,
                                              touched \cup file.touched, file.rd)

\* Unpack::unpack(prefix, dirs) on a reader positioned after the version
unpack(rd, f, prefix, dirs, now, priv) ==
    unpackLoop(rd, f, <<>>, 0, {}, prefix, dirs, now, priv)

----------------------------------------------------------------------------
(* The entries the diff is exercised on: what the walker yields for two    *)
(* paths in a few states of a small tree.                                  *)

P1 == <<1>>
P2 == <<1, 1>>

DiffEntries ==
    { EntryDir(P1, Attributes(S_IFDIR + Perm755, 0, 0)),
      EntryDir(P1, Attributes(S_IFDIR + Perm555, 0, 0)),
      EntryFile(P2, Attributes(S_IFREG + Perm644, 0, 0), md5_bytes(<<1>>), 1),
      EntryFile(P2, Attributes(S_IFREG + Perm644, MaxTime, MaxTime), md5_bytes(<<1>>), 1),
      EntryFile(P2, Attributes(S_IFREG + Perm644, 0, 0), md5_bytes(<<2>>), 1),
      EntrySymlink(P2, <<2>>, Attributes(S_IFLNK + Perm777, 0, 0)) }

\* the sequences over S of length at most n
RECURSIVE SeqsUpTo(_, _)
SeqsUpTo(S, n) ==
    IF n = 0 THEN {<<>>}
    ELSE LET shorter == SeqsUpTo(S, n - 1)
         IN shorter \cup {Append(s, x) : s \in {q \in shorter : Len(q) = n - 1}, x \in S}

Paths(entries) == {as_path(entries[i]) : i \in DOMAIN entries}
At(entries, p) == {entries[i] : i \in {j \in DOMAIN entries : as_path(entries[j]) = p}}
DistinctPaths(entries) ==
    \A i, j \in DOMAIN entries : as_path(entries[i]) = as_path(entries[j]) => i = j

----------------------------------------------------------------------------
(* Specification SpecDiff: diff applied to every pair of bounded entry     *)
(* sequences.                                                              *)

\* the variables of the diff, of the entry comparison, at rest
EnvIdle ==
    tree = <<>> /\ clock = 0 /\ privileged = FALSE /\ atimeUpdates = FALSE
PackIdle == roots = <<>> /\ archives = <<>> /\ restored = [done |-> FALSE]
RunIdle ==
    /\ work = [exists |-> FALSE] /\ remote = [exists |-> FALSE]
    /\ service = [backend |-> FALSE] /\ prefixArg = [some |-> FALSE]
    /\ runs = <<>> /\ edited = <<>>
BytesIdle == conv = [stage |-> "idle"]
WalkIdle ==
    /\ walkCall = [phase |-> "idle"] /\ injector = <<>> /\ deques = <<>>
    /\ threads = <<>> /\ channels = <<>>
CopyIdle == copying = [stage |-> "idle"]
UploadIdle == multipart = [stage |-> "idle"]
StatsIdle == stats = [stage |-> "idle"]
UnpackIdle == unpacking = [stage |-> "idle"]
JobIdle == BytesIdle /\ WalkIdle /\ CopyIdle /\ UploadIdle /\ StatsIdle /\ UnpackIdle
\* every component but one at rest
BytesAlone == WalkIdle /\ CopyIdle /\ UploadIdle /\ StatsIdle /\ UnpackIdle
WalkAlone == BytesIdle /\ CopyIdle /\ UploadIdle /\ StatsIdle /\ UnpackIdle
CopyAlone == BytesIdle /\ WalkIdle /\ UploadIdle /\ StatsIdle /\ UnpackIdle
UploadAlone == BytesIdle /\ WalkIdle /\ CopyIdle /\ StatsIdle /\ UnpackIdle
StatsAlone == BytesIdle /\ WalkIdle /\ CopyIdle /\ UploadIdle /\ UnpackIdle
UnpackAlone == BytesIdle /\ WalkIdle /\ CopyIdle /\ UploadIdle /\ StatsIdle
CallIdle ==
    /\ reading = [state |-> "idle"]
    /\ sized = [done |-> FALSE]
    /\ detected = [done |-> FALSE]
    /\ JobIdle
DiffIdle == left = <<>> /\ right = <<>> /\ differences = {} /\ diffDone = FALSE
NoEntry == [t |-> "none"]
EqIdle == entryA = NoEntry /\ entryB = NoEntry /\ eqResult = [done |-> FALSE]

InitDiff ==
    /\ EqIdle /\ EnvIdle /\ PackIdle /\ RunIdle /\ CallIdle
    /\ left \in SeqsUpTo(DiffEntries, MaxDiffLen)
    /\ right \in SeqsUpTo(DiffEntries, MaxDiffLen)
    /\ differences = {}
    /\ diffDone = FALSE

\* snapshot::diff(&left, &right)
DoDiff ==
    /\ ~diffDone
    /\ differences' = diff(left, right)
    /\ diffDone' = TRUE
    /\ UNCHANGED <<left, right>>
    /\ UNCHANGED <<eqVars, callVars, envVars, packVars, runVars>>

NextDiff == DoDiff

SpecDiff == InitDiff /\ [][NextDiff]_vars

----------------------------------------------------------------------------
(* C2: diff(E, E) is the empty set for every entry sequence E, the same    *)
(* path allowed to occur more than once in E.                              *)
C2_DiffSameEmpty ==
    (diffDone /\ left = right) => differences = {}

\* what does hold: diff(E, E) is empty when no path occurs twice in E
C2_DiffSameEmptyDistinct ==
    (diffDone /\ left = right /\ DistinctPaths(left)) => differences = {}

(* C3: diff(prev, curr) holds exactly Removed(p) for the paths of prev     *)
(* absent from curr, Added(p) for the paths of curr absent from prev and   *)
(* Changed for the paths of both whose entries are unequal; its size is    *)
(* the size of the symmetric difference plus the number of changed paths.  *)
\* the paths of both sequences with some, with only, unequal pairs of entries
ChangedPaths(prev, curr) ==
    {p \in Paths(prev) \cap Paths(curr) :
        \E l \in At(prev, p), r \in At(curr, p) : ~EntryEq(l, r)}
SurelyChangedPaths(prev, curr) ==
    {p \in Paths(prev) \cap Paths(curr) :
        \A l \in At(prev, p), r \in At(curr, p) : ~EntryEq(l, r)}

SymmetricDifference(prev, curr) ==
    (Paths(prev) \ Paths(curr)) \cup (Paths(curr) \ Paths(prev))

\* Where a path occurs twice in a sequence "its entry" is any of them: a
\* Changed record is accepted for any unequal pair, and demanded only when
\* every pair is unequal.
C3_DiffExact ==
    diffDone =>
        /\ \A x \in differences :
              CASE x.d = "Removed" -> x.path \in Paths(left) \ Paths(right)
                [] x.d = "Added"   -> x.path \in Paths(right) \ Paths(left)
                [] OTHER -> /\ x.left.path = x.right.path
                            /\ x.left \in At(left, x.left.path)
                            /\ x.right \in At(right, x.left.path)
                            /\ ~EntryEq(x.left, x.right)
        /\ \A p \in Paths(left) \ Paths(right) : Removed(p) \in differences
        /\ \A p \in Paths(right) \ Paths(left) : Added(p) \in differences
        /\ \A p \in SurelyChangedPaths(left, right) :
              \E x \in differences : x.d = "Changed" /\ x.left.path = p
        /\ Cardinality(differences) >=
              Cardinality(SymmetricDifference(left, right))
              + Cardinality(SurelyChangedPaths(left, right))
        /\ Cardinality(differences) <=
              Cardinality(SymmetricDifference(left, right))
              + Cardinality(ChangedPaths(left, right))

\* what does hold: the same, for sequences in which no path occurs twice
C3_DiffExactDistinct ==
    (DistinctPaths(left) /\ DistinctPaths(right)) => C3_DiffExact

----------------------------------------------------------------------------
(* Specification SpecEq: two entries compared, hashed, and diffed as one-  *)
(* element sequences.                                                      *)

ModeSet == {S_IFREG + Perm644, S_IFREG + Perm444}
TimeSet == 0 .. MaxTime
AttrSet == {Attributes(m, a, mt) : m \in ModeSet, a \in TimeSet, mt \in TimeSet}
PathSet == {P1, P2}

EntryUniverse ==
    {EntryFile(p, a, md5_bytes(<<c>>), n) : p \in PathSet, a \in AttrSet, c \in {1, 2}, n \in {0, 1}}
    \cup {EntrySymlink(p, t, a) : p \in PathSet, t \in {<<1>>, <<2>>}, a \in AttrSet}
    \cup {EntryDir(p, a) : p \in PathSet, a \in AttrSet}

InitEq ==
    /\ DiffIdle /\ EnvIdle /\ PackIdle /\ RunIdle /\ CallIdle
    /\ entryA \in EntryUniverse
    /\ entryB \in EntryUniverse
    /\ eqResult = [done |-> FALSE]

\* entryA == entryB, the two hashes, and diff(&[entryA], &[entryB])
DoCompare ==
    /\ ~eqResult.done
    /\ eqResult' = [done   |-> TRUE,
                    eq     |-> EntryEq(entryA, entryB),
                    hashEq |-> EntryHash(entryA) = EntryHash(entryB),
                    diffs  |-> diff(<<entryA>>, <<entryB>>)]
    /\ UNCHANGED <<entryA, entryB>>
    /\ UNCHANGED <<diffVars, callVars, envVars, packVars, runVars>>

NextEq == DoCompare

SpecEq == InitEq /\ [][NextEq]_vars

\* the entry with its two timestamps replaced
WithTimes(e, atime, mtime) ==
    [e EXCEPT !.attr = Attributes(e.attr.mode, atime, mtime)]

\* a and b differ at most in their timestamps
TimesOnly(a, b) == WithTimes(a, 0, 0) = WithTimes(b, 0, 0)

(* C8: two File entries are equal iff path, md5, len and mode are equal,   *)
(* two Symlink entries iff path, target and mode are equal, two Dir        *)
(* entries iff path and mode are equal, entries of different kinds never;  *)
(* atime and mtime affect neither equality nor hashing, and a change of    *)
(* timestamps alone produces no diff record.                               *)
C8_EntryEquality ==
    eqResult.done =>
        LET a == entryA
            b == entryB
            same == /\ a.t = b.t
                    /\ a.path = b.path
                    /\ a.attr.mode = b.attr.mode
                    /\ (a.t = "f" => a.md5 = b.md5 /\ a.len = b.len)
                    /\ (a.t = "s" => a.target = b.target)
        IN /\ eqResult.eq = same
           /\ eqResult.hashEq = same
           /\ (TimesOnly(a, b) => eqResult.eq /\ eqResult.hashEq /\ eqResult.diffs = {})

\* two files that differ in their timestamps only have been compared
C8_Witness ==
    /\ eqResult.done
    /\ entryA.t = "f"
    /\ entryA # entryB
    /\ TimesOnly(entryA, entryB)

----------------------------------------------------------------------------
(* Pack and unpack over a tree: SpecPack.                                  *)

\* the directory archives are restored under when a prefix is given
PrefixDir == <<9>>

R1 == <<1>>
R11 == <<1, 1>>
R111 == <<1, 1, 1>>
R2 == <<2>>
R21 == <<2, 1>>

DirNode(perm) == Node("d", S_IFDIR + perm, 0, 0, <<>>, <<>>)
FileNode(perm, bytes) == Node("f", S_IFREG + perm, 0, 0, bytes, <<>>)
LinkNode(target) == Node("s", S_IFLNK + Perm777, 0, 0, <<>>, target)

MakeFs(S) == [p \in {x[1] : x \in S} |-> (CHOOSE x \in S : x[1] = p)[2]]

\* what /1/1 is in a tree: nothing, a file, a symlink, or a directory
\* holding one file
Inner ==
    {{}}
    \cup {{<<R11, FileNode(perm, bytes)>>} :
             perm \in {Perm644, Perm444}, bytes \in {<<>>, <<7>>, <<7, 8>>}}
    \cup {{<<R11, LinkNode(R2)>>}}
    \cup {{<<R11, DirNode(Perm755)>>, <<R111, FileNode(Perm644, <<7>>)>>}}

\* the trees: /1 (writable or read-only) with its content, /2 holding one
\* file, and the empty directory /9
Trees(inners) ==
    {MakeFs({<<R1, DirNode(perm)>>, <<R2, DirNode(Perm755)>>,
             <<R21, FileNode(Perm644, <<5>>)>>,
             <<PrefixDir, DirNode(Perm755)>>} \cup inner) :
        perm \in {Perm755, Perm555}, inner \in inners}

TreeUniverse == Trees(Inner)

\* the lists of cached directories: one root, two roots, nested roots
RootLists == {<<R1>>, <<R1, R2>>, <<R2, R1>>, <<R1, R11>>}

\* the filters an unpack is given
FilterLists == RootLists \cup {<<R2>>, <<>>}

Prefixes == {NoPrefix, SomePrefix(PrefixDir)}

WalkOrders == {"fwd", "rev"}

InitPack ==
    /\ DiffIdle /\ EqIdle /\ RunIdle /\ CallIdle
    /\ tree \in TreeUniverse
    /\ clock = 0
    /\ privileged \in BOOLEAN
    /\ atimeUpdates \in BOOLEAN
    /\ roots \in {r \in RootLists : \A i \in DOMAIN r : Exists(tree, r[i])}
    /\ archives = <<>>
    /\ restored = [done |-> FALSE]

\* the record kept of a pack: its result, and the entries it wrote
Packed(r, entries, from) ==
    [ok |-> r.ok, out |-> r.out, written |-> r.written, after |-> r.fs,
     entries |-> entries, from |-> from]

\* Writing::open(file) then snapshot.pack(&roots)
PackTree ==
    /\ Len(archives) < MaxPacks
    /\ ~restored.done
    /\ \E order \in WalkOrders :
         archives' = Append(archives,
             Packed(pack(write_version(<<>>), tree, roots, clock, atimeUpdates,
                         privileged, order),
                    read_entries(tree, roots, clock, atimeUpdates, privileged,
                                 order).entries,
                    tree))
    /\ tree' = archives'[Len(archives')].after
    /\ UNCHANGED <<clock, privileged, atimeUpdates, roots, restored>>
    /\ UNCHANGED <<diffVars, eqVars, callVars, runVars>>

\* the record kept of an unpack: its result and what it was given
Restored(u, k, prefix, dirs, before) ==
    [done |-> TRUE, ok |-> u.ok, entries |-> u.entries, read |-> u.read,
     touched |-> u.touched, consumed |-> u.rd.pos = Len(u.rd.data),
     after |-> u.fs, archive |-> k, prefix |-> prefix, dirs |-> dirs,
     before |-> before]

\* Reading::open(file) then snapshot.unpack(prefix, &dirs)
UnpackTree ==
    /\ ~restored.done
    /\ \E k \in DOMAIN archives, prefix \in Prefixes, dirs \in FilterLists :
         /\ archives[k].ok
         /\ restored' = Restored(
                unpack(check_version(Reader(archives[k].out, FALSE)).rd,
                       tree, prefix, dirs, clock, privileged),
                k, prefix, dirs, tree)
    /\ tree' = restored'.after
    /\ UNCHANGED <<clock, privileged, atimeUpdates, roots, archives>>
    /\ UNCHANGED <<diffVars, eqVars, callVars, runVars>>

\* a second passes
Tick ==
    /\ clock < MaxTime
    /\ clock' = clock + 1
    /\ UNCHANGED <<tree, privileged, atimeUpdates, packVars, diffVars, eqVars, callVars,
                   runVars>>

NextPack == PackTree \/ UnpackTree \/ Tick

SpecPack == InitPack /\ [][NextPack]_vars

----------------------------------------------------------------------------
(* Claims about pack and unpack.                                           *)

\* the archive the unpack read, and the tree it was packed from
RestoredArchive == archives[restored.archive]

\* entry e of the packed tree is found under the prefix as it was packed
EntryRestored(f, e, original) ==
    LET q == PrefixDir \o e.path
    IN /\ Exists(f, q)
       /\ f[q].kind = e.t
       /\ f[q].mode = e.attr.mode
       /\ (e.t = "s" => f[q].target = e.target)
       /\ (e.t = "f" => /\ f[q].bytes = original[e.path].bytes
                        /\ md5_bytes(f[q].bytes) = e.md5)

\* an archive of the roots was unpacked under the fresh prefix with the
\* same roots
RoundTripCase ==
    /\ restored.done
    /\ restored.prefix = SomePrefix(PrefixDir)
    /\ restored.dirs = roots

\* C1: Round-trip. Packing the roots of a tree of files, directories and
\* symlinks and unpacking the archive under a fresh prefix with the same
\* roots succeeds, and every entry of the tree then exists under the prefix
\* with the same kind, mode bits, symlink target and file bytes (which hash
\* to the recorded md5).
C1_RoundTrip ==
    RoundTripCase =>
        /\ restored.ok
        /\ \A i \in DOMAIN RestoredArchive.entries :
              EntryRestored(tree, RestoredArchive.entries[i], RestoredArchive.from)

\* the archive entries a filter includes, in archive order
Included(dirs, entries) == SelectSeq(entries, LAMBDA e : is_include(dirs, e.path))

\* the paths an unpack of the entries may create or change: where each
\* entry goes, and the directories above it
Destinations(prefix, entries) ==
    UNION {{SubSeq(prefixed(prefix, entries[i].path), 1, k) :
               k \in 1 .. Len(prefixed(prefix, entries[i].path))} :
           i \in DOMAIN entries}

\* C4: Filter correctness. An unpack with roots R materializes, and returns
\* in its entry list, exactly the archive entries whose path has a root of R
\* as a component-wise prefix; the other entries change nothing on the
\* filesystem, and the payload of a skipped file is consumed, so that every
\* following entry is decoded and the stream is read to its end.
C4_FilterCorrect ==
    restored.done =>
        /\ restored.ok
        /\ restored.entries = Included(restored.dirs, RestoredArchive.entries)
        /\ restored.consumed
        /\ \A i \in DOMAIN restored.entries :
              /\ Exists(tree, prefixed(restored.prefix, restored.entries[i].path))
              /\ tree[prefixed(restored.prefix, restored.entries[i].path)].kind
                    = restored.entries[i].t
        /\ restored.touched \subseteq
              Destinations(restored.prefix,
                           Included(restored.dirs, RestoredArchive.entries))
        /\ \A p \in (DOMAIN tree \cup DOMAIN restored.before)
                      \ Destinations(restored.prefix,
                                     Included(restored.dirs, RestoredArchive.entries)) :
              /\ p \in DOMAIN tree
              /\ p \in DOMAIN restored.before
              /\ tree[p] = restored.before[p]

\* C7: Determinism. Two packs of the same unmodified tree with the same
\* roots write byte-identical archives, whatever order the workers deliver
\* the entries in and whatever the packs themselves read.
C7_PackDeterminism ==
    \A i, j \in DOMAIN archives :
        (archives[i].ok /\ archives[j].ok) => archives[i].out = archives[j].out

----------------------------------------------------------------------------
(* The working directory (config.rs) and the storage (storage/mod.rs).     *)

\* a file of the working directory that does not exist
NoFile == [exists |-> FALSE]

\* snapshot.snappy: the stream its frames decode to, and whether the file
\* is torn after them
SnapshotFile(data, damaged) == [exists |-> TRUE, data |-> data, damaged |-> damaged]

\* the working directory before the first run
EmptyWork ==
    [snapshot |-> NoFile, cached_dirs |-> NoFile, cached_entries |-> NoFile,
     storage |-> NoFile]

\* pull.rs write_json(path, item) for a list of paths
write_json_dirs(dirs) ==
    [exists |-> TRUE, doc |-> [i \in DOMAIN dirs |-> EncodeSeq(dirs[i])]]

\* pull.rs write_json(path, item) for a list of entries
write_json_entries(entries) ==
    [exists |-> TRUE, doc |-> [i \in DOMAIN entries |-> to_vec(entries[i])]]

\* push.rs read_cached_dirs(path): a missing file is the empty list
read_cached_dirs(file) ==
    IF ~file.exists THEN [ok |-> TRUE, dirs |-> <<>>]
    ELSE [ok |-> \A i \in DOMAIN file.doc :
                     /\ SeqAt(file.doc[i], 1).ok
                     /\ SeqAt(file.doc[i], 1).next = Len(file.doc[i]) + 1,
          dirs |-> [i \in DOMAIN file.doc |-> SeqAt(file.doc[i], 1).val]]

\* push.rs read_cached_entries(path): a missing file is the empty list
read_cached_entries(file) ==
    IF ~file.exists THEN [ok |-> TRUE, entries |-> <<>>]
    ELSE [ok |-> \A i \in DOMAIN file.doc : from_slice(file.doc[i]).ok,
          entries |-> [i \in DOMAIN file.doc |-> from_slice(file.doc[i]).entry]]

\* Storage::save: storage.json
save(svc) == [exists |-> TRUE, backend |-> svc.backend, uploadable |-> svc.uploadable]

\* Storage::is_downloable
is_downloable(storage) == storage.backend

\* Storage::is_uploadable
is_uploadable(storage) == storage.backend /\ storage.uploadable

\* Remote::is_empty, as Push::run asks the storage it is handed
is_empty(storage) == ~storage.backend

\* how far a torn download got: nothing, or half of the stream
TornCuts(data) == {0, Len(data) \div 2}

\* the ways S3::download can end: "ok", or a failure of the request, of the
\* content-length check, or of the body while it is written to the file
DownloadOutcomes(rem) ==
    IF ~rem.exists THEN {[step |-> "request", cut |-> 0]}
    ELSE {[step |-> st, cut |-> 0] : st \in {"ok", "request", "length"}}
         \cup {[step |-> "body", cut |-> c] : c \in TornCuts(rem.data)}

\* S3::download(req): the local file after it. mmap::write creates and
\* truncates the file once the response is accepted; the body follows
download(snapshot, rem, outcome) ==
    CASE outcome.step = "ok" -> SnapshotFile(rem.data, FALSE)
      [] outcome.step = "body" ->
             SnapshotFile(SubSeq(rem.data, 1, outcome.cut), TRUE)
      [] OTHER -> snapshot

\* Path::exists: the path, followed through a symlink, is there
path_exists(f, p) == Exists(f, p) /\ Exists(f, Resolve(f, p))

\* pull.rs is_cacheable(path): the canonical path, unless it cannot be
\* created or resolved, or is a symlink
is_cacheable(f, path, now, priv) ==
    LET made == IF path_exists(f, path) THEN FsOk(f, {})
                ELSE create_dir_all(f, path, now, priv)
    IN [some |-> made.ok /\ path_exists(made.fs, path)
                 /\ made.fs[Resolve(made.fs, path)].kind # "s",
        path |-> Resolve(made.fs, path),
        fs |-> made.fs]

\* cached_dirs.into_iter().filter_map(is_cacheable).collect()
RECURSIVE cacheable_dirs(_, _, _, _, _)
cacheable_dirs(f, dirs, acc, now, priv) ==
    IF dirs = <<>> THEN [dirs |-> acc, fs |-> f]
    ELSE LET c == is_cacheable(f, Head(dirs), now, priv)
         IN cacheable_dirs(c.fs, Tail(dirs),
                           IF c.some THEN Append(acc, c.path) ELSE acc, now, priv)

----------------------------------------------------------------------------
(* Pull (commands/pull.rs, bin/main.rs).                                   *)

\* what a pull run leaves: its result and the state after it
PullRun(ok, download_step, found, w, f, rem) ==
    [cmd |-> "pull", ok |-> ok, download |-> download_step, found |-> found,
     work |-> w, fs |-> f, remote |-> rem]

\* Pull::run from `snapshot.unpack(unpack_prefix, &cached_dirs)?` on
pull_unpacked(u, w, rem, step) ==
    IF u.ok
    THEN PullRun(TRUE, step, TRUE,
                 [w EXCEPT !.cached_entries = write_json_entries(u.entries)],
                 u.fs, rem)
    ELSE PullRun(FALSE, step, TRUE, w, u.fs, rem)

\* Pull::run from `if !cfg.snapshot_file.exists()` on
pull_snapshot(w, f, rem, step, dirs, prefix, now, priv) ==
    IF ~w.snapshot.exists THEN PullRun(TRUE, step, FALSE, w, f, rem)
    ELSE IF ~check_version(Reader(w.snapshot.data, w.snapshot.damaged)).ok
    THEN PullRun(FALSE, step, TRUE, w, f, rem)
    ELSE pull_unpacked(
             unpack(check_version(Reader(w.snapshot.data, w.snapshot.damaged)).rd,
                    f, prefix, dirs, now, priv),
             w, rem, step)

\* Pull::run from the filter of the requested directories on
pull_dirs(w, c, rem, step, prefix, now, priv) ==
    pull_snapshot([w EXCEPT !.cached_dirs = write_json_dirs(c.dirs)],
                  c.fs, rem, step, c.dirs, prefix, now, priv)

\* main.rs run, "pull": new_storage (saved to storage.json), then
\* Pull::run: the download if the storage has a backend, its error only
\* logged; the cacheable directories; the unpack of the local archive
pull_main(w, f, rem, svc, dirs, prefix, outcome, now, priv) ==
    pull_dirs([w EXCEPT !.storage = save(svc),
                        !.snapshot = IF is_downloable(save(svc))
                                     THEN download(@, rem, outcome) ELSE @],
              cacheable_dirs(f, dirs, <<>>, now, priv),
              rem,
              IF is_downloable(save(svc)) THEN outcome.step ELSE "none",
              prefix, now, priv)

\* a pull run, with the arguments and the tree it started from
pull_run(w, f, rem, svc, dirs, prefix, outcome, now, priv) ==
    pull_main(w, f, rem, svc, dirs, prefix, outcome, now, priv)
        @@ [args |-> dirs, before |-> f]

----------------------------------------------------------------------------
(* Push (commands/push.rs, bin/main.rs).                                   *)

\* what a push run leaves: its result, what it read (the current entries
\* once the walk succeeded), how the upload went ("none" if there was
\* none, "ok" or "failed"), and the state after
PushRun(ok, built, upload_step, dirs, previous, walked, current, changed, w, f, rem) ==
    [cmd |-> "push", ok |-> ok, built |-> built,
     uploading |-> upload_step # "none", upload |-> upload_step,
     dirs |-> dirs, previous |-> previous, walked |-> walked,
     current |-> current, changed |-> changed,
     work |-> w, fs |-> f, remote |-> rem]

\* a mutant of detect_changes: changes are always reported
detect_changes_always(diffs) == TRUE

\* push.rs detect_changes(diff, verbose)
detect_changes(diffs) == diffs # {}

\* S3::upload: the object is replaced when the multipart upload completes
upload(rem, snapshot, uploaded) ==
    IF uploaded THEN [exists |-> TRUE, data |-> snapshot.data] ELSE rem

\* a mutant of push_build: the error of the upload is returned
push_build_upload_fatal(p, w, rem, dirs, previous, current, uploaded) ==
    IF ~p.ok
    THEN PushRun(FALSE, TRUE, "none", dirs, previous, TRUE, current, TRUE,
                 [w EXCEPT !.snapshot = SnapshotFile(p.out, FALSE)], p.fs, rem)
    ELSE PushRun(is_empty(w.storage) \/ uploaded, TRUE,
                 IF is_empty(w.storage) THEN "none"
                 ELSE IF uploaded THEN "ok" ELSE "failed",
                 dirs, previous, TRUE, current, TRUE,
                 [w EXCEPT !.snapshot = SnapshotFile(p.out, FALSE)], p.fs,
                 IF is_empty(w.storage) THEN rem
                 ELSE upload(rem, SnapshotFile(p.out, FALSE), uploaded))

\* Push::run from `Writing::open(&cfg.snapshot_file)?` on: the archive is
\* packed into the truncated file; the upload follows if the storage has a
\* backend, and its error is only logged
push_build(p, w, rem, dirs, previous, current, uploaded) ==
    IF ~p.ok
    THEN PushRun(FALSE, TRUE, "none", dirs, previous, TRUE, current, TRUE,
                 [w EXCEPT !.snapshot = SnapshotFile(p.out, FALSE)], p.fs, rem)
    ELSE PushRun(TRUE, TRUE,
                 IF is_empty(w.storage) THEN "none"
                 ELSE IF uploaded THEN "ok" ELSE "failed",
                 dirs, previous, TRUE, current, TRUE,
                 [w EXCEPT !.snapshot = SnapshotFile(p.out, FALSE)], p.fs,
                 IF is_empty(w.storage) THEN rem
                 ELSE upload(rem, SnapshotFile(p.out, FALSE), uploaded))

\* Push::run from the walk of the cached directories on
push_walked(cur, w, rem, dirs, previous, now, upd, priv, order, uploaded) ==
    IF ~cur.ok
    THEN PushRun(FALSE, FALSE, "none", dirs, previous, FALSE, <<>>, FALSE,
                 w, cur.fs, rem)
    ELSE IF previous # <<>> /\ ~detect_changes(diff(previous, cur.entries))
    THEN PushRun(TRUE, FALSE, "none", dirs, previous, TRUE, cur.entries, FALSE,
                 w, cur.fs, rem)
    ELSE push_build(pack(write_version(<<>>), cur.fs, dirs, now, upd, priv, order),
                    w, rem, dirs, previous, cur.entries, uploaded)

\* Push::run from `read_cached_entries(&cfg.cached_entries_file)?` on
push_entries(prev, w, f, rem, dirs, now, upd, priv, order, uploaded) ==
    IF ~prev.ok
    THEN PushRun(FALSE, FALSE, "none", dirs, <<>>, FALSE, <<>>, FALSE, w, f, rem)
    ELSE push_walked(walk_into_vec(f, dirs, now, upd, priv, order),
                     w, rem, dirs, prev.entries, now, upd, priv, order, uploaded)

\* Push::run on the storage loaded from storage.json
push_run(w, f, rem, now, upd, priv, order, uploaded) ==
    IF ~read_cached_dirs(w.cached_dirs).ok
    THEN PushRun(FALSE, FALSE, "none", <<>>, <<>>, FALSE, <<>>, FALSE, w, f, rem)
    ELSE IF read_cached_dirs(w.cached_dirs).dirs = <<>>
    THEN PushRun(TRUE, FALSE, "none", <<>>, <<>>, FALSE, <<>>, FALSE, w, f, rem)
    ELSE push_entries(read_cached_entries(w.cached_entries), w, f, rem,
                      read_cached_dirs(w.cached_dirs).dirs,
                      now, upd, priv, order, uploaded)

----------------------------------------------------------------------------
(* Pull and push runs in one working directory: Spec.                      *)

R3 == <<3>>

\* what /1/1 is in the trees the runs start from
MainInner ==
    {{<<R11, FileNode(Perm644, <<7>>)>>},
     {<<R11, LinkNode(R2)>>},
     {<<R11, DirNode(Perm755)>>, <<R111, FileNode(Perm644, <<7>>)>>}}

MainTrees == Trees(MainInner)

\* the directories a pull is asked to cache: one, nested ones, a missing one
MainRootLists == {<<R1>>, <<R1, R11>>, <<R3>>}

\* no backend, or an S3 backend of a build that may or may not upload
Services ==
    {[backend |-> FALSE, uploadable |-> FALSE],
     [backend |-> TRUE, uploadable |-> TRUE],
     [backend |-> TRUE, uploadable |-> FALSE]}

\* the object an earlier build left under the snapshot key: none, or the
\* archive of the tree
StoredBefore(f, dirs, priv) ==
    {[exists |-> FALSE]}
    \cup {[exists |-> TRUE, data |-> p.out] :
            p \in {q \in {pack(write_version(<<>>), f, dirs, 0, FALSE, priv, "fwd")} :
                     q.ok}}

Init ==
    /\ DiffIdle /\ EqIdle /\ CallIdle
    /\ archives = <<>>
    /\ restored = [done |-> FALSE]
    /\ tree \in MainTrees
    /\ clock = 0
    /\ privileged \in BOOLEAN
    /\ atimeUpdates = FALSE
    /\ service \in Services
    /\ prefixArg \in Prefixes
    /\ roots \in MainRootLists
    /\ remote \in (IF service.backend
                    THEN StoredBefore(tree, roots, privileged)
                    ELSE {[exists |-> FALSE]})
    /\ runs = <<>>
    /\ work = EmptyWork
    /\ edited = <<FALSE>>

LastRun == runs[Len(runs)]

\* tc-cache pull [--prefix P] dirs...
Pull ==
    /\ Len(runs) < MaxRuns
    /\ \E outcome \in DownloadOutcomes(remote) :
         runs' = Append(runs, pull_run(work, tree, remote, service, roots,
                                       prefixArg, outcome, clock, privileged))
    /\ work' = runs'[Len(runs')].work
    /\ tree' = runs'[Len(runs')].fs
    /\ edited' = Append(edited, FALSE)
    /\ UNCHANGED <<remote, service, prefixArg, clock, privileged, atimeUpdates>>
    /\ UNCHANGED <<diffVars, eqVars, callVars, packVars>>

\* tc-cache push
Push ==
    /\ Len(runs) < MaxRuns
    /\ work.storage.exists
    /\ \E order \in WalkOrders, uploaded \in BOOLEAN :
         runs' = Append(runs, push_run(work, tree, remote, clock, atimeUpdates,
                                       privileged, order, uploaded))
    /\ work' = runs'[Len(runs')].work
    /\ tree' = runs'[Len(runs')].fs
    /\ remote' = runs'[Len(runs')].remote
    /\ edited' = Append(edited, FALSE)
    /\ UNCHANGED <<service, prefixArg, clock, privileged, atimeUpdates>>
    /\ UNCHANGED <<diffVars, eqVars, callVars, packVars>>

\* the build writes a file of a cached directory
\* how many times the tree was changed between runs so far
Edits == Cardinality({i \in DOMAIN edited : edited[i]})

EditTree ==
    /\ Len(runs) > 0
    /\ Edits < MaxEdits
    /\ \E p \in DOMAIN tree :
         /\ tree[p].kind = "f"
         /\ starts_with(p, R1)
         /\ tree[p].bytes # <<3>>
         /\ tree' = [tree EXCEPT ![p].bytes = <<3>>, ![p].mtime = clock]
    /\ edited' = [edited EXCEPT ![Len(edited)] = TRUE]
    /\ UNCHANGED <<work, remote, service, prefixArg, runs>>
    /\ UNCHANGED <<clock, privileged, atimeUpdates, diffVars, eqVars, callVars, packVars>>

\* the build removes a cached directory and what is in it
RemoveTree ==
    /\ Len(runs) > 0
    /\ Edits < MaxEdits
    /\ Exists(tree, R1)
    /\ tree' = [p \in {q \in DOMAIN tree : ~starts_with(q, R1)} |-> tree[p]]
    /\ edited' = [edited EXCEPT ![Len(edited)] = TRUE]
    /\ UNCHANGED <<work, remote, service, prefixArg, runs>>
    /\ UNCHANGED <<clock, privileged, atimeUpdates, diffVars, eqVars, callVars, packVars>>

Next == Pull \/ Push \/ EditTree \/ RemoveTree

Spec == Init /\ [][Next]_vars

----------------------------------------------------------------------------
(* Claims about pull and push.                                             *)

\* the working directory as run i found it
WorkBefore(i) == IF i = 1 THEN EmptyWork ELSE runs[i - 1].work

\* C5: No-change. After a pull followed by a push in the same working
\* directory, a second push on a tree that has not changed since the first
\* push detects no changes, returns success and does not rewrite
\* snapshot.snappy.
C5_NoChangeSecondPush ==
    \A i \in 1 .. Len(runs) - 2 :
        (/\ runs[i].cmd = "pull" /\ runs[i].ok
         /\ runs[i + 1].cmd = "push" /\ runs[i + 1].ok
         /\ runs[i + 2].cmd = "push"
         /\ ~edited[i + 2])
        => /\ runs[i + 2].ok
           /\ ~runs[i + 2].changed
           /\ ~runs[i + 2].built
           /\ runs[i + 2].work.snapshot = runs[i + 1].work.snapshot

\* what the push of run r should decide: the cached directories are not
\* empty, and the previous list is empty or differs from the current one
ShouldBuild(r) ==
    /\ r.dirs # <<>>
    /\ \/ r.previous = <<>>
       \/ (r.walked /\ diff(r.previous, r.current) # {})

\* run i built nothing: the snapshot is as it was, nothing was uploaded
LeftAlone(i) ==
    /\ runs[i].work.snapshot = WorkBefore(i).snapshot
    /\ ~runs[i].uploading

\* C6 as stated: Push::run builds a new snapshot if and only if cached_dirs
\* is non-empty and the previous entry list is empty or differs from the
\* current one; a run that does not build leaves snapshot.snappy unchanged,
\* attempts no upload and returns success.
C6_PushBuildsIff ==
    \A i \in DOMAIN runs :
        runs[i].cmd = "push" =>
            /\ runs[i].built <=> ShouldBuild(runs[i])
            /\ ~runs[i].built => (LeftAlone(i) /\ runs[i].ok)

\* run r read its inputs: cached_dirs.json is empty, or cached_entries.json
\* was read and the cached directories were walked without error
ReadInputs(r) == r.dirs = <<>> \/ r.walked

\* C6 amended: a push run that reads its inputs without error builds if and
\* only if cached_dirs is non-empty and the previous entry list is empty or
\* differs from the current one, and returns success if it does not build;
\* a run that fails to read them returns the error and does not build; and
\* every run that does not build leaves snapshot.snappy unchanged and
\* attempts no upload.
C6_PushBuildsIffRead ==
    \A i \in DOMAIN runs :
        runs[i].cmd = "push" =>
            /\ ReadInputs(runs[i]) =>
                  /\ runs[i].built <=> ShouldBuild(runs[i])
                  /\ ~runs[i].built => runs[i].ok
            /\ ~ReadInputs(runs[i]) => (~runs[i].built /\ ~runs[i].ok)
            /\ ~runs[i].built => LeftAlone(i)

\* a push found a non-empty previous list and no change, and built nothing;
\* another built and uploaded; a third failed to walk
C6_Witness ==
    /\ \E i \in DOMAIN runs :
         /\ runs[i].cmd = "push" /\ runs[i].ok /\ ~runs[i].built
         /\ runs[i].dirs # <<>> /\ runs[i].previous # <<>> /\ runs[i].walked
    /\ \E i \in DOMAIN runs :
         /\ runs[i].cmd = "push" /\ runs[i].ok /\ runs[i].built
         /\ runs[i].uploading

\* C9: after every successful pull that finds no archive locally,
\* cached_entries.json exists and holds the empty list, whatever it held
\* before; so the following push sees an empty previous view.
C9_PullWithoutArchive ==
    \A i \in DOMAIN runs :
        (runs[i].cmd = "pull" /\ runs[i].ok /\ ~runs[i].found)
        => /\ runs[i].work.cached_entries.exists
           /\ read_cached_entries(runs[i].work.cached_entries).ok
           /\ read_cached_entries(runs[i].work.cached_entries).entries = <<>>
           /\ (i < Len(runs) /\ runs[i + 1].cmd = "push")
                 => runs[i + 1].previous = <<>>

\* C10: a failed download is never fatal to pull: at whatever step it
\* fails, Pull::run returns success and proceeds with no prior archive,
\* that is, with an empty previous view.
C10_DownloadFailureNotFatal ==
    \A i \in DOMAIN runs :
        (runs[i].cmd = "pull" /\ runs[i].download \in {"request", "length", "body"})
        => /\ runs[i].ok
           /\ ~runs[i].found
           /\ read_cached_entries(runs[i].work.cached_entries).entries = <<>>

----------------------------------------------------------------------------
(* Claims about the upload and the persisted files.                        *)

\* the entries of a stream after its version header, each File entry with
\* its payload, read as Reading reads them until the clean end
RECURSIVE ReadAll(_, _)
ReadAll(rd, acc) ==
    LET e == read_entry(rd)
    IN IF e.status = "none" THEN [ok |-> TRUE, items |-> acc]
       ELSE IF e.status = "err" THEN [ok |-> FALSE, items |-> acc]
       ELSE IF e.entry.t # "f"
       THEN ReadAll(e.rd, Append(acc, [entry |-> e.entry, bytes |-> <<>>]))
       ELSE IF ~copy_to(e.rd, e.entry.len).ok THEN [ok |-> FALSE, items |-> acc]
       ELSE ReadAll(copy_to(e.rd, e.entry.len).rd,
                    Append(acc, [entry |-> e.entry,
                                 bytes |-> copy_to(e.rd, e.entry.len).bytes]))

\* a snapshot file that opens and reads to its end without error
CompleteArchive(file) ==
    /\ file.exists
    /\ ~file.damaged
    /\ check_version(Reader(file.data, FALSE)).ok
    /\ ReadAll(check_version(Reader(file.data, FALSE)).rd, <<>>).ok

\* the entries a complete snapshot file holds
ArchivedEntries(file) ==
    [i \in DOMAIN ReadAll(check_version(Reader(file.data, FALSE)).rd, <<>>).items |->
        ReadAll(check_version(Reader(file.data, FALSE)).rd, <<>>).items[i].entry]

\* C11: a failed upload is never fatal to push: whenever the snapshot was
\* built and the upload then fails, Push::run returns success and the local
\* snapshot.snappy is the complete archive just built (it reads to its end
\* and holds the entries the run walked).
C11_UploadFailureNotFatal ==
    \A i \in DOMAIN runs :
        (runs[i].cmd = "push" /\ runs[i].built /\ runs[i].upload = "failed")
        => /\ runs[i].ok
           /\ CompleteArchive(runs[i].work.snapshot)
           /\ ArchivedEntries(runs[i].work.snapshot) = runs[i].current
           /\ runs[i].remote = (IF i = 1 THEN runs[i].remote ELSE runs[i - 1].remote)

\* a push built an archive of at least one entry and its upload failed
C11_Witness ==
    \E i \in DOMAIN runs :
        /\ runs[i].cmd = "push" /\ runs[i].built /\ runs[i].upload = "failed"
        /\ runs[i].current # <<>>

\* C12: Push never invokes the upload unless the persisted storage
\* descriptor has uploadable = true: with a remote configured and
\* uploadable = false, a push that builds a snapshot performs no upload.
C12_UploadOnlyIfUploadable ==
    \A i \in DOMAIN runs :
        (runs[i].cmd = "push" /\ runs[i].uploading)
        => is_uploadable(WorkBefore(i).storage)

----------------------------------------------------------------------------
(* Claims about the roots of a pull.                                       *)

\* the paths of a list of directories
DirSet(dirs) == {dirs[k] : k \in DOMAIN dirs}

\* the list a pull run left in cached_dirs.json
CachedDirs(r) == DirSet(read_cached_dirs(r.work.cached_dirs).dirs)

\* C13: a root given to pull that is a symlink is dropped: neither it nor
\* the path it resolves to appears in cached_dirs.json (the list that is
\* also the unpack filter); every root that is not a symlink appears, and
\* a missing root is created first.
C13_SymlinkRootDropped ==
    \A i \in DOMAIN runs :
        runs[i].cmd = "pull" =>
            \A root \in DirSet(runs[i].args) :
                /\ (Exists(runs[i].before, root) /\ runs[i].before[root].kind = "s")
                     => /\ root \notin CachedDirs(runs[i])
                        /\ Resolve(runs[i].before, root) \in DirSet(runs[i].args)
                             \/ Resolve(runs[i].before, root) \notin CachedDirs(runs[i])
                /\ (Exists(runs[i].before, root) /\ runs[i].before[root].kind # "s")
                     => root \in CachedDirs(runs[i])
                /\ (~Exists(runs[i].before, root)
                       /\ IsDir(runs[i].before, Parent(root))
                       /\ DirWritable(runs[i].before, Parent(root), privileged))
                     => /\ IsDir(runs[i].fs, root)
                        /\ root \in CachedDirs(runs[i])

----------------------------------------------------------------------------
(* Claims about the persisted files as wholes.                             *)

\* C14: the persisted files are rewritten atomically: in every reachable
\* state, also after a run that failed part-way, snapshot.snappy is absent
\* or a complete archive (never truncated or partial), and
\* cached_dirs.json, cached_entries.json and storage.json are absent or
\* complete documents.
C14_AtomicRewrite ==
    /\ work.snapshot.exists => CompleteArchive(work.snapshot)
    /\ read_cached_dirs(work.cached_dirs).ok
    /\ read_cached_entries(work.cached_entries).ok
    /\ work.storage.exists => work.storage.backend \in BOOLEAN

----------------------------------------------------------------------------
(* Claims about the restored attributes (SpecPack).                        *)

\* the permission bits of a mode word
PermBits(mode) == mode % 4096

\* entry e is on disk at its destination with the recorded mode bits and
\* the recorded mtime
AttributesOnDisk(f, prefix, e) ==
    /\ Exists(f, prefixed(prefix, e.path))
    /\ PermBits(f[prefixed(prefix, e.path)].mode) = PermBits(e.attr.mode)
    /\ f[prefixed(prefix, e.path)].mtime = e.attr.mtime

\* C15: after a successful unpack, every materialized Dir and File entry
\* has on disk the recorded mode bits and the recorded mtime, also the
\* directories into which the same unpack created child entries after the
\* directory itself was materialized.
C15_AttributesRestored ==
    (restored.done /\ restored.ok)
    => \A i \in DOMAIN restored.entries :
           restored.entries[i].t \in {"d", "f"}
           => AttributesOnDisk(restored.after, restored.prefix, restored.entries[i])

----------------------------------------------------------------------------
(* Claims about the byte counts (SpecPack).                                *)

\* the bytes an archive of the entries holds after its version header:
\* for every entry the length word and the metadata, and for every file
\* its payload
RECURSIVE ArchiveBytes(_)
ArchiveBytes(entries) ==
    IF entries = <<>> THEN 0
    ELSE 4 + Len(to_vec(Head(entries)))
         + (IF Head(entries).t = "f" THEN Head(entries).len ELSE 0)
         + ArchiveBytes(Tail(entries))

\* the unpack was given roots that include every entry of the archive
AllIncluded ==
    /\ restored.done
    /\ restored.ok
    /\ \A i \in DOMAIN RestoredArchive.entries :
         is_include(restored.dirs, RestoredArchive.entries[i].path)

\* C20: the byte count returned by Pack::pack equals the byte count
\* returned by Unpack::unpack of that archive when the unpack roots include
\* every archived entry: both equal the sum over the entries of 4 + the
\* metadata length, plus the sum of the file lengths.
C20_ByteCounts ==
    AllIncluded
    => /\ restored.read = RestoredArchive.written
       /\ restored.read = ArchiveBytes(RestoredArchive.entries)

\* an archive holding a file with a payload was unpacked whole
C20_Witness ==
    /\ AllIncluded
    /\ \E i \in DOMAIN RestoredArchive.entries :
         /\ RestoredArchive.entries[i].t = "f"
         /\ RestoredArchive.entries[i].len > 0

----------------------------------------------------------------------------
(* The reader on whole, cut and garbled streams: SpecRead. An archive is   *)
(* written through Writing, the stream is then cut short or one of its     *)
(* bytes is changed, and it is read back through Reading::from, read_entry *)
(* and skip.                                                               *)

\* how many bytes of a stream are garbled
MaxGarbled == 1

\* the entries (with the payload of a file) the archives are written from
ItemDir == [entry |-> EntryDir(<<1>>, Attributes(S_IFDIR + Perm755, 0, 0)),
            bytes |-> <<>>]
ItemFile == [entry |-> EntryFile(<<1, 1>>, Attributes(S_IFREG + Perm644, 0, 0),
                                 md5_bytes(<<7>>), 1),
             bytes |-> <<7>>]
ItemEmptyFile == [entry |-> EntryFile(<<1, 2>>, Attributes(S_IFREG + Perm444, 0, 0),
                                      md5_bytes(<<>>), 0),
                  bytes |-> <<>>]
ItemSymlink == [entry |-> EntrySymlink(<<1, 3>>, <<2>>,
                                       Attributes(S_IFLNK + Perm777, 0, 0)),
                bytes |-> <<>>]

ItemLists ==
    {<<>>, <<ItemDir>>, <<ItemDir, ItemFile>>,
     <<ItemDir, ItemEmptyFile, ItemSymlink>>}

\* write_entry, then write_file for a File entry, for every item
RECURSIVE WriteItems(_, _)
WriteItems(out, items) ==
    IF items = <<>> THEN out
    ELSE WriteItems(
             IF Head(items).entry.t = "f"
             THEN write_file(write_entry(out, Head(items).entry).out,
                             Head(items).bytes, Head(items).entry.len, TRUE).out
             ELSE write_entry(out, Head(items).entry).out,
             Tail(items))

\* Reading::from(reader): the reader if the version header is right, or
\* the Snapshot error of check_version
Reading_from(rd) ==
    [ok |-> check_version(rd).ok,
     err |-> IF check_version(rd).ok THEN "none" ELSE "Snapshot",
     rd |-> check_version(rd).rd]

\* no operation on the reader yet
NoOp == [op |-> "none", status |-> "none", left |-> 0]

InitRead ==
    /\ DiffIdle /\ EqIdle /\ EnvIdle /\ PackIdle /\ RunIdle /\ JobIdle
    /\ sized = [done |-> FALSE]
    /\ detected = [done |-> FALSE]
    /\ \E items \in ItemLists :
         reading = [state |-> "unwritten", items |-> items, data |-> <<>>,
                    damaged |-> FALSE, source |-> "none", garbled |-> 0,
                    pos |-> 0, opened |-> FALSE, err |-> "none", count |-> 0,
                    payload |-> -1, last |-> NoOp]

\* Writing::from(writer), then write_entry and write_file for every item
WriteArchive ==
    /\ reading.state = "unwritten"
    /\ reading' = [reading EXCEPT !.state = "written",
                                  !.data = WriteItems(write_version(<<>>), reading.items),
                                  !.source = "writing"]
    /\ UNCHANGED <<sized, detected, jobVars, diffVars, eqVars, envVars, packVars, runVars>>

\* the stream is cut short: the reader is handed its first k bytes, and the
\* compressed file may be damaged after them
Truncate ==
    /\ reading.state = "written"
    /\ reading.source = "writing"
    /\ \E k \in 0 .. Len(reading.data) - 1, damaged \in BOOLEAN :
         reading' = [reading EXCEPT !.data = SubSeq(reading.data, 1, k),
                                    !.damaged = damaged,
                                    !.source = "cut"]
    /\ UNCHANGED <<sized, detected, jobVars, diffVars, eqVars, envVars, packVars, runVars>>

\* one byte of the stream is changed
Garble ==
    /\ reading.state = "written"
    /\ reading.source # "cut"
    /\ reading.garbled < MaxGarbled
    /\ \E i \in DOMAIN reading.data, b \in {0, 1, 255} :
         /\ reading.data[i] # b
         /\ reading' = [reading EXCEPT !.data[i] = b,
                                       !.garbled = @ + 1,
                                       !.source = "garbled"]
    /\ UNCHANGED <<sized, detected, jobVars, diffVars, eqVars, envVars, packVars, runVars>>

\* Reading::from(reader)
OpenReading ==
    /\ reading.state = "written"
    /\ reading' =
         [reading EXCEPT
            !.state = IF Reading_from(Reader(reading.data, reading.damaged)).ok
                      THEN "open" ELSE "failed",
            !.opened = Reading_from(Reader(reading.data, reading.damaged)).ok,
            !.err = Reading_from(Reader(reading.data, reading.damaged)).err,
            !.pos = Reading_from(Reader(reading.data, reading.damaged)).rd.pos,
            !.last = [op |-> "from", status |-> "none", left |-> Len(reading.data)]]
    /\ UNCHANGED <<sized, detected, jobVars, diffVars, eqVars, envVars, packVars, runVars>>

\* the reader of the state
ReaderNow == [data |-> reading.data, pos |-> reading.pos, damaged |-> reading.damaged]

\* what read_entry did to the reader of the state
EntryRead(re) ==
    [reading EXCEPT
       !.state = CASE re.status = "some" -> "open"
                   [] re.status = "none" -> "end"
                   [] OTHER -> "failed",
       !.err = IF re.status = "err" THEN "Snapshot" ELSE "none",
       !.pos = re.rd.pos,
       !.count = IF re.status = "some" THEN @ + 1 ELSE @,
       !.payload = IF re.status = "some" /\ re.entry.t = "f" THEN re.entry.len ELSE -1,
       !.last = [op |-> "read_entry", status |-> re.status,
                 left |-> Len(reading.data) - reading.pos]]

\* Reading::read_entry, once the payload of the entry before is consumed
ReadEntry ==
    /\ reading.state = "open"
    /\ reading.payload = -1
    /\ reading' = EntryRead(read_entry(ReaderNow))
    /\ UNCHANGED <<sized, detected, jobVars, diffVars, eqVars, envVars, packVars, runVars>>

\* Reading::skip(len) of the payload of the File entry just read
SkipPayload ==
    /\ reading.state = "open"
    /\ reading.payload >= 0
    /\ reading' =
         [reading EXCEPT
            !.state = IF skip(ReaderNow, reading.payload).ok THEN "open" ELSE "failed",
            !.err = IF skip(ReaderNow, reading.payload).ok THEN "none" ELSE "Snapshot",
            !.pos = skip(ReaderNow, reading.payload).rd.pos,
            !.payload = -1,
            !.last = [op |-> "skip", status |-> "none",
                      left |-> Len(reading.data) - reading.pos]]
    /\ UNCHANGED <<sized, detected, jobVars, diffVars, eqVars, envVars, packVars, runVars>>

NextRead ==
    WriteArchive \/ Truncate \/ Garble \/ OpenReading \/ ReadEntry \/ SkipPayload

SpecRead == InitRead /\ [][NextRead]_vars

----------------------------------------------------------------------------
(* Claims about the reader (SpecRead).                                     *)

\* the last operation on the reader was read_entry
EntryWasRead ==
    /\ reading.state \in {"open", "end", "failed"}
    /\ reading.last.op = "read_entry"

\* where the reader stood before its last operation
PosBefore == Len(reading.data) - reading.last.left

\* the metadata length announced at that position (4 bytes were left)
MetaLenBefore == from_le_bytes(SubSeq(reading.data, PosBefore + 1, PosBefore + 4))

\* the stream ended inside the entry read last: inside the length word, or
\* before the announced metadata was complete
EndedInside ==
    \/ reading.last.left \in 1 .. 3
    \/ (reading.last.left >= 4 /\ reading.last.left - 4 < MetaLenBefore)

\* the metadata block of the entry read last was complete and did not decode
Undecodable ==
    /\ reading.last.left >= 4
    /\ reading.last.left - 4 >= MetaLenBefore
    /\ ~from_slice(SubSeq(reading.data, PosBefore + 5,
                          PosBefore + 4 + MetaLenBefore)).ok

\* C16: read_entry returns None only on clean EOF, when zero bytes remain
\* before meta_len; whenever the stream ends inside an entry (after 1 to 3
\* bytes of meta_len, or before meta_len bytes of metadata have been read)
\* it returns a Snapshot error, and a metadata block that fails to decode
\* is a Snapshot error.
C16_NoneOnlyAtCleanEnd ==
    EntryWasRead
    => /\ reading.last.status = "none" => reading.last.left = 0
       /\ EndedInside
            => (reading.last.status = "err" /\ reading.err = "Snapshot")
       /\ Undecodable
            => (reading.last.status = "err" /\ reading.err = "Snapshot")

\* the first four bytes of the stream are A0 F1 B2 01
StartsWithMagic ==
    /\ Len(reading.data) >= 4
    /\ SubSeq(reading.data, 1, 4) = <<160, 241, 178, 1>>

\* C17: every archive opened for writing starts with the 4 bytes
\* A0 F1 B2 01, and opening for reading succeeds if and only if the first
\* 4 bytes of the stream equal that magic; a mismatch or a stream shorter
\* than 4 bytes yields a Snapshot error and no entry is read.
C17_Magic ==
    /\ reading.state \notin {"idle", "unwritten"} /\ reading.source = "writing"
         => StartsWithMagic
    /\ reading.state \in {"open", "end", "failed"}
         => /\ reading.opened <=> StartsWithMagic
            /\ ~reading.opened
                 => /\ reading.state = "failed"
                    /\ reading.err = "Snapshot"
                    /\ reading.count = 0
                    /\ reading.last.op = "from"

\* a stream whose magic was garbled and one shorter than 4 bytes are refused
C17_Witness ==
    /\ reading.state = "failed"
    /\ ~reading.opened
    /\ reading.source \in {"garbled", "cut"}

----------------------------------------------------------------------------
(* The size of a File entry: SpecFile. Entry::file is called with a length *)
(* of any width, and a tree whose files have such lengths is walked.       *)
(* A length is a u64 kept as two parts, len = hi * 2^16 + lo.              *)

\* how many files the walked directory holds
MaxFiles == 2

\* the length hi * 2^16 + lo
Wide(hi, lo) == [hi |-> hi, lo |-> lo]

\* std::u32::MAX
U32_MAX == Wide(U16 - 1, U16 - 1)

\* a <= b on lengths
WideLeq(a, b) == a.hi < b.hi \/ (a.hi = b.hi /\ a.lo <= b.lo)

\* the lengths handed in: around 0, around 2^16, around 2^32 and 2^33
WideLens ==
    { Wide(hi, lo) : hi \in {0, 1, U16 - 1, U16, U16 + 1, 2 * U16},
                     lo \in {0, 1, U16 - 1} }

\* the text of std::num::TryFromIntError
TryFromIntError == "out of range integral type conversion attempted"

\* the messages that contain "out of range"
MentionsOutOfRange(msg) == msg = TryFromIntError

\* a mutant of try_into_u32: 2^32 is let through
try_into_u32_upto(len) ==
    IF len.hi < U16 \/ (len.hi = U16 /\ len.lo = 0)
    THEN [ok |-> TRUE, value |-> len, msg |-> ""]
    ELSE [ok |-> FALSE, value |-> len, msg |-> TryFromIntError]

\* len.try_into() for u32, with the error turned into its text
try_into_u32(len) ==
    IF WideLeq(len, U32_MAX)
    THEN [ok |-> TRUE, value |-> len, msg |-> ""]
    ELSE [ok |-> FALSE, value |-> len, msg |-> TryFromIntError]

\* Entry::file(path, attr, md5, len): the length is converted to u32, a
\* failure is an Io error of the path
Entry_file(path, attr, md5, len) ==
    LET r == try_into_u32(len)
    IN IF r.ok
       THEN [ok |-> TRUE, kind |-> "none", msg |-> "",
             entry |-> EntryFile(path, attr, md5, r.value)]
       ELSE [ok |-> FALSE, kind |-> "Io", msg |-> r.msg, entry |-> NoEntry]

\* `meta.len() as usize`: usize is 64 bits wide, a u64 is kept whole
AsUsize(len) == len

\* hashing::md5::file of a file of zero bytes: its digest is told by its
\* length alone
md5_zeros(len) == <<"md5", len.hi, len.lo>>

\* the attributes of the files and of the directory walked
SizedFileAttr == Attributes(S_IFREG + Perm644, 0, 0)
SizedDirAttr == Attributes(S_IFDIR + Perm755, 0, 0)

\* Entry::try_from_path on a regular file of the given size
file_from_path(path, size) ==
    LET len == AsUsize(size)
    IN Entry_file(path, SizedFileAttr, md5_zeros(len), len)

\* Entry::walk_into_vec over the directory /1 that holds the files /1/1,
\* /1/2, ... of the given sizes: the first Err met ends the fold
RECURSIVE walk_sized(_, _, _)
walk_sized(sizes, i, acc) ==
    IF i > Len(sizes) THEN [ok |-> TRUE, kind |-> "none", msg |-> "", entries |-> acc]
    ELSE LET r == file_from_path(<<1, i>>, sizes[i])
         IN IF r.ok THEN walk_sized(sizes, i + 1, Append(acc, r.entry))
            ELSE [ok |-> FALSE, kind |-> r.kind, msg |-> r.msg, entries |-> <<>>]

InitFile ==
    /\ DiffIdle /\ EqIdle /\ EnvIdle /\ PackIdle /\ RunIdle /\ JobIdle
    /\ reading = [state |-> "idle"]
    /\ detected = [done |-> FALSE]
    /\ \E n \in 1 .. MaxFiles : \E sizes \in [1 .. n -> WideLens] :
         sized = [done |-> FALSE, sizes |-> sizes]

\* Entry::file called with the first of the lengths
CallEntryFile ==
    /\ ~sized.done
    /\ Len(sized.sizes) = 1
    /\ sized' = [done |-> TRUE, sizes |-> sized.sizes, call |-> "file",
                 result |-> Entry_file(<<1, 1>>, SizedFileAttr,
                                       md5_zeros(sized.sizes[1]), sized.sizes[1])]
    /\ UNCHANGED <<reading, detected, jobVars, diffVars, eqVars, envVars, packVars, runVars>>

\* Entry::walk_into_vec(["/1"]) over the files of these sizes
WalkSized ==
    /\ ~sized.done
    /\ sized' = [done |-> TRUE, sizes |-> sized.sizes, call |-> "walk",
                 result |-> walk_sized(sized.sizes, 1,
                                       <<EntryDir(<<1>>, SizedDirAttr)>>)]
    /\ UNCHANGED <<reading, detected, jobVars, diffVars, eqVars, envVars, packVars, runVars>>

NextFile == CallEntryFile \/ WalkSized

SpecFile == InitFile /\ [][NextFile]_vars

\* the length is above 2^32 - 1
ExceedsU32(len) == len.hi >= U16

\* C18: Entry::file fails, with an Io error whose message contains "out of
\* range", if and only if the given length exceeds 2^32 - 1; every File
\* entry that exists has its len in [0, 2^32), and a walk over a tree that
\* holds a larger file fails.
C18_SizeCap ==
    sized.done
    => /\ sized.call = "file"
            => /\ ~sized.result.ok <=> ExceedsU32(sized.sizes[1])
               /\ ~sized.result.ok
                    => /\ sized.result.kind = "Io"
                       /\ MentionsOutOfRange(sized.result.msg)
               /\ sized.result.ok
                    => /\ sized.result.entry.len = sized.sizes[1]
                       /\ ~ExceedsU32(sized.result.entry.len)
       /\ sized.call = "walk"
            => /\ ~sized.result.ok
                    <=> \E i \in 1 .. Len(sized.sizes) : ExceedsU32(sized.sizes[i])
               /\ ~sized.result.ok
                    => /\ sized.result.kind = "Io"
                       /\ MentionsOutOfRange(sized.result.msg)
               /\ \A i \in 1 .. Len(sized.result.entries) :
                    sized.result.entries[i].t = "f"
                    => ~ExceedsU32(sized.result.entries[i].len)

\* a walk over a file of 2^32 - 1 bytes and one of 2^32 bytes has failed
C18_Witness ==
    /\ sized.done
    /\ sized.call = "walk"
    /\ sized.sizes = <<U32_MAX, Wide(U16, 0)>>
    /\ ~sized.result.ok

----------------------------------------------------------------------------
(* The detection of the CI service: SpecEnv (services/mod.rs, generic.rs,  *)
(* teamcity.rs). The environment, the --teamcity-props-file argument and   *)
(* the two property files are drawn, and ServiceFactory::from_env is       *)
(* applied to them.                                                        *)

\* the kind of Error::unrecognized_service(..)
unrecognized_service == "UnrecognizedService"

\* the values an environment variable is given ("absent": not set)
UploadValues == {"absent", "1", "true", "0"}

\* the environments: TC_CACHE_PROJECT_ID, TC_CACHE_UPLOAD,
\* TC_CACHE_REMOTE_URL and TEAMCITY_BUILD_PROPERTIES_FILE set or not
Environments ==
    [PROJECT_ID : BOOLEAN, UPLOAD : UploadValues, REMOTE_URL : BOOLEAN,
     TEAMCITY_BUILD_PROPERTIES_FILE : BOOLEAN]

\* the keys of the build properties file and of the configuration
\* properties file it names
BuildKeys == {"teamcity.version", "tc.cache.remote.url",
              "teamcity.configuration.properties.file"}
ConfigKeys == {"teamcity.serverUrl", "teamcity.project.id"}

\* a properties file: missing, or present with some of its keys
BuildFiles ==
    {[exists |-> FALSE, keys |-> {}]}
    \cup {[exists |-> TRUE, keys |-> k] : k \in SUBSET BuildKeys}
ConfigFiles ==
    {[exists |-> FALSE, keys |-> {}, is_default |-> "absent"]}
    \cup {[exists |-> TRUE, keys |-> k, is_default |-> d] :
            k \in SUBSET ConfigKeys, d \in {"absent", "true", "false"}}

\* a service, or the error that took its place
ServiceOk(name, uploadable) ==
    [ok |-> TRUE, service |-> name, uploadable |-> uploadable, err |-> "none"]
ServiceErr(kind) ==
    [ok |-> FALSE, service |-> "none", uploadable |-> FALSE, err |-> kind]

\* Generic::is_available(env)
Generic_is_available(env) ==
    env.PROJECT_ID /\ env.UPLOAD # "absent" /\ env.REMOTE_URL

\* Generic::from_env(env)
Generic_from_env(env) ==
    IF ~env.PROJECT_ID THEN ServiceErr(unrecognized_service)
    ELSE IF env.UPLOAD = "absent" THEN ServiceErr(unrecognized_service)
    ELSE IF ~env.REMOTE_URL THEN ServiceErr(unrecognized_service)
    ELSE ServiceOk("generic", env.UPLOAD = "1" \/ env.UPLOAD = "true")

\* TeamCity::is_available(env)
TeamCity_is_available(env) == env.TEAMCITY_BUILD_PROPERTIES_FILE

\* Props::from_path(path): a missing file is an Io error
Props_from_path(file) == IF file.exists THEN "ok" ELSE "Io"

\* Props::key(key): a missing key is an UnrecognizedService error
Props_key(file, key) == IF key \in file.keys THEN "ok" ELSE unrecognized_service

\* the first error of a sequence of steps, or "ok"
RECURSIVE FirstErr(_)
FirstErr(steps) ==
    IF steps = <<>> THEN "ok"
    ELSE IF Head(steps) # "ok" THEN Head(steps)
    ELSE FirstErr(Tail(steps))

\* TeamCity::from_path(path): the build properties, then the configuration
\* properties they name; is_default is false when its key is missing
TeamCity_from_path(build, config) ==
    LET e == FirstErr(<<Props_from_path(build),
                        Props_key(build, "teamcity.version"),
                        Props_key(build, "tc.cache.remote.url"),
                        Props_key(build, "teamcity.configuration.properties.file"),
                        Props_from_path(config),
                        Props_key(config, "teamcity.serverUrl"),
                        Props_key(config, "teamcity.project.id")>>)
    IN IF e = "ok" THEN ServiceOk("teamcity", config.is_default = "true")
       ELSE ServiceErr(e)

\* TeamCity::from_env(env)
TeamCity_from_env(env, build, config) ==
    IF ~env.TEAMCITY_BUILD_PROPERTIES_FILE THEN ServiceErr(unrecognized_service)
    ELSE TeamCity_from_path(build, config)

\* ServiceFactory::from_env(env, teamcity_build_properties_path)
ServiceFactory_from_env(env, path, build, config) ==
    IF path THEN TeamCity_from_path(build, config)
    ELSE IF Generic_is_available(env) THEN Generic_from_env(env)
    ELSE IF TeamCity_is_available(env) THEN TeamCity_from_env(env, build, config)
    ELSE ServiceErr(unrecognized_service)

InitEnv ==
    /\ DiffIdle /\ EqIdle /\ EnvIdle /\ PackIdle /\ RunIdle /\ JobIdle
    /\ reading = [state |-> "idle"]
    /\ sized = [done |-> FALSE]
    /\ \E env \in Environments, path \in BOOLEAN,
          build \in BuildFiles, config \in ConfigFiles :
         detected = [done |-> FALSE, env |-> env, path |-> path,
                     build |-> build, config |-> config]

\* main.rs new_service: ServiceFactory::from_env(&env, args.value_of(..))
NewService ==
    /\ ~detected.done
    /\ detected' = [detected EXCEPT !.done = TRUE]
                   @@ [result |-> ServiceFactory_from_env(detected.env, detected.path,
                                                         detected.build, detected.config)]
    /\ UNCHANGED <<reading, sized, jobVars, diffVars, eqVars, envVars, packVars, runVars>>

NextEnv == NewService

SpecEnv == InitEnv /\ [][NextEnv]_vars

\* the generic source is fully configured
GenericConfigured ==
    /\ detected.env.PROJECT_ID
    /\ detected.env.UPLOAD # "absent"
    /\ detected.env.REMOTE_URL

\* a TeamCity property source is named, by the argument or the environment
TeamCityNamed == detected.path \/ detected.env.TEAMCITY_BUILD_PROPERTIES_FILE

\* the TeamCity property files are there and hold every required key
TeamCityComplete ==
    /\ detected.build.exists /\ detected.build.keys = BuildKeys
    /\ detected.config.exists /\ detected.config.keys = ConfigKeys

\* C19: when the TeamCity property source lacks a required key (or its file
\* is missing) but the generic environment source is fully configured,
\* ServiceFactory::from_env returns the generic service and not an error;
\* an UnrecognizedService error is returned only when no source is
\* applicable.
C19_SourceSelection ==
    detected.done
    => /\ (TeamCityNamed /\ ~TeamCityComplete /\ GenericConfigured)
            => (detected.result.ok /\ detected.result.service = "generic")
       /\ detected.result.err = unrecognized_service
            => (~GenericConfigured /\ ~(TeamCityNamed /\ TeamCityComplete))

----------------------------------------------------------------------------
(* The byte-encoded length over the whole of u32: SpecBytes (bytes.rs).    *)
(* A u32 is kept as its two 16-bit halves, u = hi * 2^16 + lo.             *)

\* the u32 values converted: 0, 1, the byte and half-word borders, the top
\* bit, 123456789 = 0x075BCD15 of tests::u32_to_bytes, and u32::MAX
HalfWords == {0, 1, 255, 256, 1883, 32767, 32768, 52501, U16 - 1}
U32Values == {Wide(hi, lo) : hi \in HalfWords, lo \in HalfWords}

\* (self >> s) & 0xff for s = 0, 8, 16, 24
ShrByte(u, s) ==
    CASE s = 0 -> u.lo % 256
      [] s = 8 -> (u.lo \div 256) % 256
      [] s = 16 -> u.hi % 256
      [] s = 24 -> (u.hi \div 256) % 256

\* a mutant of u32_into_le_bytes: the bytes leave in big-endian order
u32_into_be_bytes(u) ==
    LET b1 == ShrByte(u, 24)
        b2 == ShrByte(u, 16)
        b3 == ShrByte(u, 8)
        b4 == ShrByte(u, 0)
    IN <<b1, b2, b3, b4>>

\* impl IntoLeBytes for u32: [b4, b3, b2, b1]
u32_into_le_bytes(u) ==
    LET b1 == ShrByte(u, 24)
        b2 == ShrByte(u, 16)
        b3 == ShrByte(u, 8)
        b4 == ShrByte(u, 0)
    IN <<b4, b3, b2, b1>>

\* impl FromLeBytes<u32> for u32: buf[0] + (buf[1] << 8) + (buf[2] << 16)
\* + (buf[3] << 24); the sum stays below 2^32
u32_from_le_bytes(buf) ==
    Wide(buf[3] + buf[4] * 256, buf[1] + buf[2] * 256)

InitBytes ==
    /\ DiffIdle /\ EqIdle /\ EnvIdle /\ PackIdle /\ RunIdle
    /\ reading = [state |-> "idle"]
    /\ sized = [done |-> FALSE]
    /\ detected = [done |-> FALSE]
    /\ BytesAlone
    /\ \E u \in U32Values : conv = [stage |-> "given", u |-> u]

\* x.into_le_bytes()
IntoLeBytes ==
    /\ conv.stage = "given"
    /\ conv' = [stage |-> "bytes", u |-> conv.u, bytes |-> u32_into_le_bytes(conv.u)]
    /\ UNCHANGED bytesRest

\* u32::from_le_bytes(bytes)
FromLeBytes ==
    /\ conv.stage = "bytes"
    /\ conv' = [stage |-> "back", u |-> conv.u, bytes |-> conv.bytes,
                back |-> u32_from_le_bytes(conv.bytes)]
    /\ UNCHANGED bytesRest

NextBytes == IntoLeBytes \/ FromLeBytes

SpecBytes == InitBytes /\ [][NextBytes]_vars

\* 256^i for i = 0, 1
Pow256(i) == IF i = 0 THEN 1 ELSE 256

\* byte i (0..3) of the value hi * 2^16 + lo, least significant first
ByteOfValue(u, i) ==
    IF i < 2 THEN (u.lo \div Pow256(i)) % 256
    ELSE (u.hi \div Pow256(i - 2)) % 256

\* C21: for every u in [0, 2^32), from_le_bytes(into_le_bytes(u)) = u, and
\* into_le_bytes(u) is little-endian: byte i (i = 0..3) is (u >> 8*i) & 0xff.
C21_LeBytesRoundTrip ==
    /\ conv.stage \in {"bytes", "back"}
         => /\ Len(conv.bytes) = 4
            /\ \A i \in 0 .. 3 : conv.bytes[i + 1] = ByteOfValue(conv.u, i)
    /\ conv.stage = "back" => conv.back = conv.u

\* 123456789 became 15 cd 5b 07 and came back, and so did a value with the
\* top bit set
C21_Witness ==
    /\ conv.stage = "back"
    /\ \/ conv.u = Wide(1883, 52501) /\ conv.bytes = <<21, 205, 91, 7>>
       \/ conv.u = Wide(U16 - 1, U16 - 1) /\ conv.bytes = <<255, 255, 255, 255>>

----------------------------------------------------------------------------
(* Claims about the walk behind a pack (SpecPack).                         *)

\* the symlinks of the tree f that lie in the tree of one of the roots
WalkedSymlinks(f, dirs) ==
    {p \in DOMAIN f : /\ f[p].kind = "s"
                      /\ \E i \in DOMAIN dirs : starts_with(p, dirs[i])}

\* the path lies below a symlink of f
BelowSymlink(f, p) ==
    \E k \in 1 .. Len(p) - 1 :
        Exists(f, SubSeq(p, 1, k)) /\ f[SubSeq(p, 1, k)].kind = "s"

\* C23: the walker never follows symlinks: in the entry list returned for
\* any set of roots, each symlink in the walked trees appears exactly once,
\* as a Symlink entry carrying its unresolved target, and no entry is
\* produced for anything reached only through that symlink.
C23_SymlinksNotFollowed ==
    \A k \in DOMAIN archives :
        archives[k].ok
        => LET E == archives[k].entries
               f == archives[k].from
           IN /\ \A p \in WalkedSymlinks(f, roots) :
                    /\ Cardinality({i \in DOMAIN E : as_path(E[i]) = p}) = 1
                    /\ \A i \in DOMAIN E :
                         as_path(E[i]) = p
                         => (E[i].t = "s" /\ E[i].target = f[p].target)
              /\ \A i \in DOMAIN E : ~BelowSymlink(f, as_path(E[i]))

----------------------------------------------------------------------------
(* The walk on the thread pool: SpecWalk (snapshot/entry.rs, pack.rs).     *)
(* Entry::walk spawns a producer on the pool, which sends the paths it     *)
(* enumerates into a channel; the pool threads that run the bridge take    *)
(* the paths from the channel, turn each into an entry and fold them. A    *)
(* pool thread runs one job at a time to its end: a job that waits on the  *)
(* channel keeps its thread.                                               *)

\* the most threads a pool has
MaxThreads == 2

\* owner write only: a file its owner cannot read
Perm200 == 2 * 64

\* what /1/1 is in the trees walked: a file, a file that cannot be read, a
\* symlink, or a directory holding one file
WalkInner ==
    {{<<R11, FileNode(Perm644, <<7>>)>>},
     {<<R11, FileNode(Perm200, <<7>>)>>},
     {<<R11, LinkNode(R2)>>},
     {<<R11, DirNode(Perm755)>>, <<R111, FileNode(Perm644, <<7>>)>>}}

WalkTrees ==
    {MakeFs({<<R1, DirNode(Perm755)>>, <<R2, DirNode(Perm755)>>,
             <<R21, FileNode(Perm644, <<5>>)>>} \cup inner) : inner \in WalkInner}

\* the roots walked: one, two, one inside the other, and one that is missing
WalkRootLists == {<<R1>>, <<R1, R2>>, <<R1, R11>>, <<R2, R3>>}

\* a job of the pool: the producer of a walk ("produce"), the bridge of a
\* walk ("bridge") and a split of it ("fold"), and the roots of
\* read_entries from one root on ("roots")
Job(kind, w) == [job |-> kind, walk |-> w]

\* what a pool thread is doing
Free == [at |-> "free"]
Producing(w, k) == [at |-> "produce", walk |-> w, next |-> k]
Folding(w, memo) == [at |-> "fold", walk |-> w, memo |-> memo]

\* mpsc::channel() and the bridge over its receiver: the items in flight,
\* whether the sender and the receiver are alive, how many pool threads
\* are folding its items, and the memos of those that have returned
NewChannel ==
    [queue |-> <<>>, tx |-> TRUE, rx |-> TRUE, started |-> FALSE, open |-> 0,
     memos |-> <<>>]

PoolThreads == 1 .. walkCall.size

\* the roots the producer of walk w goes through: all of them for
\* walk_into_vec, the w-th for read_entries
DirsOf(w) ==
    IF walkCall.caller = "push" THEN walkCall.dirs ELSE <<walkCall.dirs[w]>>

\* the items the producer of walk w sends
ItemsOf(w) == WalkItems(walkCall.from, DirsOf(w))

InitWalk ==
    /\ DiffIdle /\ EqIdle /\ PackIdle /\ RunIdle /\ WalkAlone
    /\ reading = [state |-> "idle"]
    /\ sized = [done |-> FALSE]
    /\ detected = [done |-> FALSE]
    /\ tree \in WalkTrees
    /\ clock = 1
    /\ privileged \in BOOLEAN
    /\ atimeUpdates \in BOOLEAN
    /\ \E caller \in {"push", "pack"}, dirs \in WalkRootLists, size \in 1 .. MaxThreads :
         walkCall = [phase |-> "start", caller |-> caller, dirs |-> dirs,
                     size |-> size, from |-> tree, full |-> FALSE]
    /\ injector = <<>>
    /\ deques = [t \in 1 .. MaxThreads |-> <<>>]
    /\ threads = [t \in 1 .. MaxThreads |-> Free]
    /\ channels = <<>>

\* Push::run on the main thread: Entry::walk_into_vec(dirs). Entry::walk
\* spawns the producer (rayon::spawn from outside the pool injects it),
\* then try_fold / try_reduce inject the bridge and wait for it
CallWalkIntoVec ==
    /\ walkCall.phase = "start"
    /\ walkCall.caller = "push"
    /\ walkCall' = [walkCall EXCEPT !.phase = "running"]
    /\ channels' = <<NewChannel>>
    /\ injector' = <<Job("produce", 1), Job("bridge", 1)>>
    /\ UNCHANGED <<deques, threads, envVars, walkRest>>

\* Pack::pack on the main thread: read_entries(dirs) injects the parallel
\* iterator over the roots and waits for it
CallReadEntries ==
    /\ walkCall.phase = "start"
    /\ walkCall.caller = "pack"
    /\ walkCall' = [walkCall EXCEPT !.phase = "running"]
    /\ channels' = [w \in DOMAIN walkCall.dirs |-> NewChannel]
    /\ injector' = <<Job("roots", 1)>>
    /\ UNCHANGED <<deques, threads, envVars, walkRest>>

\* the splits a bridge leaves for the other threads of the pool
Splits(w) == [i \in 1 .. walkCall.size - 1 |-> Job("fold", w)]

\* pool thread t starts job j, with dq the deques and inj the injector
\* once j is taken out
StartJob(t, j, dq, inj) ==
    /\ injector' = inj
    /\ CASE j.job = "produce" ->
              \* the closure of rayon::spawn in Entry::walk
              /\ threads' = [threads EXCEPT ![t] = Producing(j.walk, 1)]
              /\ deques' = dq
              /\ UNCHANGED channels
         [] j.job \in {"bridge", "fold"} ->
              \* the fold over the receiver; a split of a bridge that has
              \* returned, or after an Err, returns at once
              IF walkCall.full \/ ~channels[j.walk].rx
              THEN /\ deques' = dq
                   /\ UNCHANGED <<threads, channels>>
              ELSE /\ threads' = [threads EXCEPT ![t] = Folding(j.walk, <<>>)]
                   /\ deques' = IF j.job = "bridge"
                                THEN [dq EXCEPT ![t] = @ \o Splits(j.walk)]
                                ELSE dq
                   /\ channels' = [channels EXCEPT ![j.walk].started = TRUE,
                                                   ![j.walk].open = @ + 1]
         [] j.job = "roots" ->
              \* read_entries: the roots after this one are left to be
              \* stolen; flat_map calls Entry::walk for this root, which
              \* spawns its producer onto the thread's own deque, and then
              \* runs the bridge of that walk on this thread
              IF walkCall.full
              THEN /\ deques' = dq
                   /\ UNCHANGED <<threads, channels>>
              ELSE /\ threads' = [threads EXCEPT ![t] = Folding(j.walk, <<>>)]
                   /\ deques' =
                        [dq EXCEPT ![t] =
                            @ \o (IF j.walk < Len(walkCall.dirs)
                                  THEN <<Job("roots", j.walk + 1)>> ELSE <<>>)
                              \o <<Job("produce", j.walk)>>
                              \o Splits(j.walk)]
                   /\ channels' = [channels EXCEPT ![j.walk].started = TRUE,
                                                   ![j.walk].open = @ + 1]

\* a free pool thread finds work: the job it pushed last, or the oldest job
\* of another thread's deque, or the oldest injected job
TakeJob(t) ==
    /\ walkCall.phase \in {"running", "done"}
    /\ t \in PoolThreads
    /\ threads[t] = Free
    /\ \/ /\ deques[t] # <<>>
          /\ StartJob(t, deques[t][Len(deques[t])],
                      [deques EXCEPT ![t] = SubSeq(@, 1, Len(@) - 1)], injector)
       \/ /\ deques[t] = <<>>
          /\ \E u \in PoolThreads \ {t} :
               /\ deques[u] # <<>>
               /\ StartJob(t, Head(deques[u]), [deques EXCEPT ![u] = Tail(@)],
                           injector)
       \/ /\ deques[t] = <<>>
          /\ injector # <<>>
          /\ StartJob(t, Head(injector), deques, Tail(injector))
    /\ UNCHANGED <<walkCall, envVars, walkRest>>

\* the producer of Entry::walk: the next item is sent; the producer returns
\* when the send fails, after an Err item, and after the last item
ProducerStep(t) ==
    /\ t \in PoolThreads
    /\ threads[t].at = "produce"
    /\ LET w == threads[t].walk
           k == threads[t].next
           items == ItemsOf(w)
       IN IF k > Len(items) \/ ~channels[w].rx
          THEN /\ channels' = [channels EXCEPT ![w].tx = FALSE]
               /\ threads' = [threads EXCEPT ![t] = Free]
          ELSE /\ channels' = [channels EXCEPT
                                  ![w].queue = Append(@, items[k]),
                                  ![w].tx = ~items[k].err]
               /\ threads' = [threads EXCEPT ![t] =
                                 IF items[k].err THEN Free ELSE Producing(w, k + 1)]
    /\ UNCHANGED <<walkCall, injector, deques, envVars, walkRest>>

\* the fold of thread t returns: its memo is kept unless an Err was met,
\* and the receiver is dropped with the last fold of the bridge
FoldReturned(ch, w, memo, failed) ==
    [ch EXCEPT ![w].open = @ - 1,
               ![w].memos = IF failed THEN @ ELSE Append(@, memo),
               ![w].rx = ch[w].open > 1]

\* a pool thread in the fold of a bridge: it takes the next item of the
\* channel and turns it into an entry (try_from_path); an Err ends the
\* fold of every thread (try_fold is full); it returns when the channel is
\* empty and the sender is gone; it waits while the channel is empty and
\* the sender is alive
FoldStep(t) ==
    /\ t \in PoolThreads
    /\ threads[t].at = "fold"
    /\ LET w == threads[t].walk
           c == channels[w]
           memo == threads[t].memo
       IN \/ /\ walkCall.full
             /\ channels' = FoldReturned(channels, w, memo, TRUE)
             /\ threads' = [threads EXCEPT ![t] = Free]
             /\ UNCHANGED <<walkCall, tree>>
          \/ /\ ~walkCall.full
             /\ c.queue # <<>>
             /\ LET item == Head(c.queue)
                    taken == [channels EXCEPT ![w].queue = Tail(@)]
                    r == try_from_path(tree, item.path, clock, atimeUpdates,
                                       privileged)
                IN IF item.err
                   THEN /\ walkCall' = [walkCall EXCEPT !.full = TRUE]
                        /\ channels' = FoldReturned(taken, w, memo, TRUE)
                        /\ threads' = [threads EXCEPT ![t] = Free]
                        /\ UNCHANGED tree
                   ELSE IF r.ok
                   THEN /\ threads' = [threads EXCEPT ![t].memo = Append(@, r.entry)]
                        /\ channels' = taken
                        /\ tree' = r.fs
                        /\ UNCHANGED walkCall
                   ELSE /\ walkCall' = [walkCall EXCEPT !.full = TRUE]
                        /\ channels' = FoldReturned(taken, w, memo, TRUE)
                        /\ threads' = [threads EXCEPT ![t] = Free]
                        /\ tree' = r.fs
          \/ /\ ~walkCall.full
             /\ c.queue = <<>>
             /\ ~c.tx
             /\ channels' = FoldReturned(channels, w, memo, FALSE)
             /\ threads' = [threads EXCEPT ![t] = Free]
             /\ UNCHANGED <<walkCall, tree>>
    /\ UNCHANGED <<injector, deques, clock, privileged, atimeUpdates, walkRest>>

\* the memos of every walk, reduced in the order of the walks
AllMemos == Flatten([w \in DOMAIN channels |-> Flatten(channels[w].memos)])

\* every bridge that was started has returned, and no root is left to start
BridgesReturned ==
    /\ \A w \in DOMAIN channels : channels[w].open = 0
    /\ \/ walkCall.full /\ \E w \in DOMAIN channels : channels[w].started
       \/ \A w \in DOMAIN channels : channels[w].started /\ ~channels[w].rx

\* try_reduce returns to the main thread: the first Err, or the entries,
\* which are then sorted by path
ReturnWalk ==
    /\ walkCall.phase = "running"
    /\ BridgesReturned
    /\ walkCall' = [walkCall EXCEPT !.phase = "done"]
                   @@ [result |-> IF walkCall.full
                                  THEN [ok |-> FALSE, entries |-> <<>>]
                                  ELSE [ok |-> TRUE, entries |-> sort_by_key(AllMemos)]]
    /\ UNCHANGED <<injector, deques, threads, channels, envVars, walkRest>>

NextWalk ==
    \/ CallWalkIntoVec
    \/ CallReadEntries
    \/ \E t \in 1 .. MaxThreads : TakeJob(t)
    \/ \E t \in 1 .. MaxThreads : ProducerStep(t)
    \/ \E t \in 1 .. MaxThreads : FoldStep(t)
    \/ ReturnWalk

SpecWalk == InitWalk /\ [][NextWalk]_vars

----------------------------------------------------------------------------
(* Claims about the walk on the pool (SpecWalk).                           *)

\* the paths enumerated for walk_into_vec, and whether one of them yields
\* an error: an Err item of the producer, or a path try_from_path fails on
EnumeratedItems == WalkItems(walkCall.from, walkCall.dirs)
YieldsError(item) ==
    item.err \/ ~try_from_path(walkCall.from, item.path, clock, atimeUpdates,
                               privileged).ok
SomeItemFails == \E k \in DOMAIN EnumeratedItems : YieldsError(EnumeratedItems[k])

\* how often path p is enumerated, and how often it is in the list
TimesEnumerated(p) ==
    Cardinality({k \in DOMAIN EnumeratedItems : EnumeratedItems[k].path = p})
TimesListed(entries, p) ==
    Cardinality({i \in DOMAIN entries : as_path(entries[i]) = p})

\* C22: for every interleaving of the path producer and the worker
\* threads, a successful Entry::walk_into_vec returns the same list: one
\* entry for each path enumerated under each root (none lost, none produced
\* twice for one enumeration), sorted by path in non-decreasing order; and
\* if any enumerated path yields an error it returns that error and never
\* a partial list.
C22_WalkSameList ==
    (walkCall.phase = "done" /\ walkCall.caller = "push")
    => LET entries == walkCall.result.entries
       IN /\ walkCall.result.ok <=> ~SomeItemFails
          /\ ~walkCall.result.ok => entries = <<>>
          /\ walkCall.result.ok
               => /\ Len(entries) = Len(EnumeratedItems)
                  /\ \A p \in DOMAIN walkCall.from :
                       TimesListed(entries, p) = TimesEnumerated(p)
                  /\ \A i \in DOMAIN entries :
                       EntryEq(entries[i],
                               try_from_path(walkCall.from, as_path(entries[i]),
                                             clock, atimeUpdates, privileged).entry)
                  /\ \A i \in 1 .. Len(entries) - 1 :
                       ~PathLess(as_path(entries[i + 1]), as_path(entries[i]))

\* two threads have walked two roots, one inside the other, and the list
\* came back: five entries, /1/1 and /1/1/1 twice
C22_Witness ==
    /\ walkCall.phase = "done"
    /\ walkCall.caller = "push"
    /\ walkCall.size = 2
    /\ walkCall.dirs = <<R1, R11>>
    /\ walkCall.result.ok
    /\ Len(walkCall.result.entries) >= 5
    /\ \A w \in DOMAIN channels : Len(channels[w].memos) = 2

\* pool thread t can take a step: it is free and there is a job to take, it
\* is the producer, or it is folding and the channel has an item, the
\* sender is gone, or an Err has ended the fold
CanStep(t) ==
    \/ /\ threads[t] = Free
       /\ \/ injector # <<>>
          \/ \E u \in PoolThreads : deques[u] # <<>>
    \/ threads[t].at = "produce"
    \/ /\ threads[t].at = "fold"
       /\ \/ walkCall.full
          \/ channels[threads[t].walk].queue # <<>>
          \/ ~channels[threads[t].walk].tx

\* C24: for any finite tree and any pool size >= 1, the walk used by push
\* (Entry::walk_into_vec) and the walk used by pack (read_entries)
\* eventually return, with the entries or the first error: the producer
\* spawned on the pool gets to run, no consumer waits on the channel for
\* ever, and the producer exits once the consumer is gone. Every step of a
\* walk uses up an item or a job, so the call returns unless a state is
\* reached in which it has not returned and no thread can step, and a
\* thread that is not free after the return can step.
C24_WalkTerminates ==
    /\ walkCall.phase = "running"
         => (BridgesReturned \/ \E t \in PoolThreads : CanStep(t))
    /\ walkCall.phase = "done"
         => \A t \in PoolThreads : threads[t] = Free \/ CanStep(t)

----------------------------------------------------------------------------
(* Pack::pack while another process changes the files: SpecCopy. The walk  *)
(* of read_entries takes the length of every file; the loop of pack then   *)
(* opens and copies the files one by one, and between the walk and the     *)
(* copy of a file its length may change.                                   *)

\* how many times a file changes its length while pack runs
MaxResizes == 1

R12 == <<1, 2>>

\* a file that is copied through a mapping
MappedFile == Zeros(MEM_MAP_THRESHOLD)

R13 == <<1, 3>>

\* /1 with two files, or with a file that is mapped, a file and a directory
CopyTrees ==
    {MakeFs({<<R1, DirNode(Perm755)>>, <<R11, FileNode(Perm644, a)>>,
             <<R12, FileNode(Perm644, b)>>}) :
        a \in {<<>>, <<7>>, <<7, 8>>}, b \in {<<>>, <<5>>}}
    \cup {MakeFs({<<R1, DirNode(Perm755)>>, <<R11, FileNode(Perm644, MappedFile)>>,
                  <<R12, FileNode(Perm644, b)>>, <<R13, DirNode(Perm755)>>}) :
             b \in {<<>>, <<5>>}}

\* the lengths a file of length n is truncated or extended to
NewLengths(n) == {0, n - 1, n + 1} \ {-1, n}

\* the file cut to k bytes, or extended to k bytes
Resized(bytes, k) ==
    IF k <= Len(bytes) THEN SubSeq(bytes, 1, k)
    ELSE bytes \o [i \in 1 .. k - Len(bytes) |-> 9]

InitCopy ==
    /\ DiffIdle /\ EqIdle /\ PackIdle /\ RunIdle /\ CopyAlone
    /\ reading = [state |-> "idle"]
    /\ sized = [done |-> FALSE]
    /\ detected = [done |-> FALSE]
    /\ tree \in CopyTrees
    /\ clock = 1
    /\ privileged \in BOOLEAN
    /\ atimeUpdates \in BOOLEAN
    /\ copying = [stage |-> "start", dirs |-> <<R1>>, entries |-> <<>>,
                  next |-> 1, out |-> <<>>, payloads |-> <<>>, resizes |-> 0,
                  changed |-> <<>>, changedAt |-> 0]

\* Writing::open(file), then the first line of the loop of Pack::pack:
\* read_entries(dirs)?
CopyReadEntries ==
    /\ copying.stage = "start"
    /\ \E order \in WalkOrders :
         LET w == read_entries(tree, copying.dirs, clock, atimeUpdates,
                               privileged, order)
         IN /\ tree' = w.fs
            /\ copying' = IF w.ok
                          THEN [copying EXCEPT !.stage = "packing",
                                               !.entries = w.entries,
                                               !.out = write_version(<<>>)]
                          ELSE [copying EXCEPT !.stage = "failed"]
    /\ UNCHANGED <<clock, privileged, atimeUpdates, copyRest>>

\* another process truncates or extends a file
Resize ==
    /\ copying.stage = "packing"
    /\ copying.resizes < MaxResizes
    /\ \E p \in DOMAIN tree :
         /\ tree[p].kind = "f"
         /\ \E k \in NewLengths(Len(tree[p].bytes)) :
              tree' = [tree EXCEPT ![p].bytes = Resized(@, k), ![p].mtime = clock]
         /\ copying' = [copying EXCEPT !.resizes = @ + 1, !.changed = p,
                                       !.changedAt = copying.next]
    /\ UNCHANGED <<clock, privileged, atimeUpdates, copyRest>>

\* one turn of the loop of Pack::pack: write_entry, and for a file
\* File::open and write_file with the length the walk found
CopyEntry ==
    /\ copying.stage = "packing"
    /\ copying.next <= Len(copying.entries)
    /\ LET entry == copying.entries[copying.next]
           we    == write_entry(copying.out, entry)
           path  == Resolve(tree, entry.path)
       IN IF entry.t # "f"
          THEN /\ copying' = [copying EXCEPT !.out = we.out, !.next = @ + 1,
                                             !.payloads = Append(@, 0)]
               /\ tree' = tree
          ELSE IF ~Exists(tree, path) \/ tree[path].kind # "f"
                  \/ ~(privileged \/ OwnerRead(tree[path].mode))
          THEN /\ copying' = [copying EXCEPT !.out = we.out, !.stage = "failed"]
               /\ tree' = tree
          ELSE \E fault \in BOOLEAN :
                 LET wf == write_file(we.out, tree[path].bytes, entry.len, fault)
                 IN /\ tree' = IF entry.len = 0 THEN tree
                               ELSE ReadBumpsAtime(tree, path, clock, atimeUpdates)
                    /\ copying' =
                         IF wf.ok
                         THEN [copying EXCEPT
                                 !.out = wf.out, !.next = @ + 1,
                                 !.payloads = Append(@, Len(wf.out) - Len(we.out))]
                         ELSE [copying EXCEPT !.out = wf.out, !.stage = "failed"]
    /\ UNCHANGED <<clock, privileged, atimeUpdates, copyRest>>

\* the end of Pack::pack: self.flush()? and Ok(written)
CopyFlush ==
    /\ copying.stage = "packing"
    /\ copying.next > Len(copying.entries)
    /\ copying' = [copying EXCEPT !.stage = "done"]
    /\ UNCHANGED <<envVars, copyRest>>

NextCopy == CopyReadEntries \/ Resize \/ CopyEntry \/ CopyFlush

SpecCopy == InitCopy /\ [][NextCopy]_vars

\* the archive of a pack that returned success, read back
CopiedBack == ReadAll(check_version(Reader(copying.out, FALSE)).rd, <<>>)

\* the payload a record is followed by: len bytes for a file, none for a
\* directory or a symlink
PayloadOf(entry) == IF entry.t = "f" THEN entry.len ELSE 0

\* C25: framing. In every archive for which pack returns success each File
\* record is followed by exactly File.len payload bytes (none when len is
\* 0) and each Dir or Symlink record by none, also when a file's size
\* changes between the walk and the copy: the copy appended that many
\* bytes after each record, and the reader finds the records that were
\* written, each with a payload of that length, and then the clean end.
C25_Framing ==
    copying.stage = "done"
    => /\ Len(copying.payloads) = Len(copying.entries)
       /\ \A i \in DOMAIN copying.entries :
            copying.payloads[i] = PayloadOf(copying.entries[i])
       /\ check_version(Reader(copying.out, FALSE)).ok
       /\ CopiedBack.ok
       /\ Len(CopiedBack.items) = Len(copying.entries)
       /\ \A i \in DOMAIN copying.entries :
            /\ CopiedBack.items[i].entry = copying.entries[i]
            /\ Len(CopiedBack.items[i].bytes) = PayloadOf(copying.entries[i])

\* pack returned success although a file had changed its length after the
\* walk and before its copy
C25_Witness ==
    /\ copying.stage = "done"
    /\ copying.resizes > 0
    /\ \E i \in DOMAIN copying.entries :
         /\ copying.entries[i].t = "f"
         /\ copying.entries[i].path = copying.changed
         /\ copying.changedAt <= i
         /\ copying.entries[i].len > 0
         /\ Len(tree[copying.changed].bytes) # copying.entries[i].len

----------------------------------------------------------------------------
(* The multi-part upload of S3::upload: SpecUpload. The part uploads are   *)
(* futures that start when Buffered first polls them; the responses of     *)
(* the store arrive in any order, each one a success or a failure.         *)

\* CHUNK_SIZE: 10mb
CHUNK_SIZE == 1024 * 1024 * 10
CONCURRENCY == 10

\* the number of parts of the longest file uploaded
MaxParts == 12

\* the lengths of the files uploaded: empty, one byte, one part to the
\* byte, one byte more, and MaxParts parts the last of them short
UploadLens == {0, 1, CHUNK_SIZE, CHUNK_SIZE + 1, MaxParts * CHUNK_SIZE - 7}

\* src.chunks(CHUNK_SIZE).enumerate(): the slices of the mapped file, each
\* with its index from 0
chunks(len, size) ==
    [i \in 1 .. (len + size - 1) \div size |->
        [index |-> i - 1, offset |-> (i - 1) * size,
         size |-> IF i * size <= len THEN size ELSE len - (i - 1) * size]]

\* the UploadPartRequest of a chunk
UploadPartRequest(chunk) ==
    [part_number |-> chunk.index + 1, offset |-> chunk.offset, size |-> chunk.size]

\* the e_tag of the response to a part upload
ETag(req) == <<"etag", req.offset, req.size>>

\* the CompletedPart made of the response
CompletedPart(req) == [e_tag |-> ETag(req), part_number |-> req.part_number]

\* FuturesExt::sync: the future is run to its end on the calling thread and
\* its item or its error returned
sync(outcome) == outcome

NoPart == [some |-> FALSE, at |-> 0]

\* a mutant of next_ready: a finished part is yielded as it finishes
next_ready_any(queued, yielded) ==
    IF queued = {} THEN NoPart
    ELSE [some |-> TRUE, at |-> CHOOSE k \in queued : TRUE]

\* Buffered over FuturesOrdered: of the parts that have finished, the one
\* yielded next is the one that follows the parts yielded so far
next_ready(queued, yielded) ==
    IF Len(yielded) + 1 \in queued
    THEN [some |-> TRUE, at |-> Len(yielded) + 1]
    ELSE NoPart

\* collect() polls the stream until it is not ready
RECURSIVE Collected(_, _, _)
Collected(reqs, queued, yielded) ==
    LET r == next_ready(queued, yielded)
    IN IF ~r.some THEN [queued |-> queued, yielded |-> yielded]
       ELSE Collected(reqs, queued \ {r.at},
                      Append(yielded, CompletedPart(reqs[r.at])))

\* Buffered::poll fills its queue from the stream up to CONCURRENCY futures,
\* the finished ones that wait for their turn included
Filled(n, started, inFlight, queued) ==
    LET room == CONCURRENCY - Cardinality(inFlight) - Cardinality(queued)
    IN IF started + room <= n THEN started + room ELSE n

InitUpload ==
    /\ DiffIdle /\ EqIdle /\ EnvIdle /\ PackIdle /\ RunIdle /\ UploadAlone
    /\ reading = [state |-> "idle"]
    /\ sized = [done |-> FALSE]
    /\ detected = [done |-> FALSE]
    /\ \E len \in UploadLens :
         multipart = [stage |-> "start", len |-> len, parts |-> <<>>,
                      started |-> 0, inFlight |-> {}, queued |-> {},
                      yielded |-> <<>>, succeeded |-> {}, failed |-> {},
                      outOfOrder |-> FALSE, completeCalls |-> <<>>,
                      result |-> "none"]

\* S3::upload up to the first poll of the parts: create_multipart_upload,
\* the upload_id, mmap::read (which fails on an empty file), the requests
\* of all parts, and the first CONCURRENCY of them started
CreateMultipartUpload ==
    /\ multipart.stage = "start"
    /\ \E response \in {"ok", "no_upload_id", "err"} :
         IF sync(response) # "ok" \/ multipart.len = 0
         THEN multipart' = [multipart EXCEPT !.stage = "returned", !.result = "err"]
         ELSE LET reqs == [i \in DOMAIN chunks(multipart.len, CHUNK_SIZE) |->
                             UploadPartRequest(chunks(multipart.len, CHUNK_SIZE)[i])]
                  first == Filled(Len(reqs), 0, {}, {})
              IN multipart' = [multipart EXCEPT !.stage = "uploading",
                                                !.parts = reqs,
                                                !.started = first,
                                                !.inFlight = 1 .. first]
    /\ UNCHANGED <<envVars, uploadRest>>

\* the store answers a part upload: a failure ends collect(), and with it
\* S3::upload, at once; a success is queued, the parts whose turn it is are
\* collected, further parts are started, and after the last part
\* complete_multipart_upload is sent
UploadPartResponds ==
    /\ multipart.stage = "uploading"
    /\ \E k \in multipart.inFlight, ok \in BOOLEAN :
         IF ~ok
         THEN multipart' = [multipart EXCEPT !.stage = "returned",
                                             !.result = "err",
                                             !.failed = @ \cup {k},
                                             !.inFlight = {}]
         ELSE LET flying == multipart.inFlight \ {k}
                  c      == Collected(multipart.parts, multipart.queued \cup {k},
                                      multipart.yielded)
                  n      == Len(multipart.parts)
                  upto   == Filled(n, multipart.started, flying, c.queued)
                  whole  == Len(c.yielded) = n
              IN multipart' =
                   [multipart EXCEPT
                      !.succeeded = @ \cup {k},
                      !.outOfOrder = @ \/ \E j \in flying : j < k,
                      !.queued = c.queued,
                      !.yielded = c.yielded,
                      !.started = upto,
                      !.inFlight = flying \cup (multipart.started + 1 .. upto),
                      !.stage = IF whole THEN "completing" ELSE "uploading",
                      !.completeCalls = IF whole THEN Append(@, sync(c.yielded))
                                        ELSE @]
    /\ UNCHANGED <<envVars, uploadRest>>

\* the store answers complete_multipart_upload: Ok(len) or the error
CompleteResponds ==
    /\ multipart.stage = "completing"
    /\ \E ok \in BOOLEAN :
         multipart' = [multipart EXCEPT
                         !.stage = "returned",
                         !.result = IF sync(ok) THEN "ok" ELSE "err"]
    /\ UNCHANGED <<envVars, uploadRest>>

NextUpload == CreateMultipartUpload \/ UploadPartResponds \/ CompleteResponds

SpecUpload == InitUpload /\ [][NextUpload]_vars

\* the parts cut the file into consecutive pieces of CHUNK_SIZE bytes, the
\* last one the rest, numbered from 1
ConsecutiveParts(reqs, len) ==
    /\ reqs # <<>>
    /\ \A i \in DOMAIN reqs :
         /\ reqs[i].part_number = i
         /\ reqs[i].offset = (i - 1) * CHUNK_SIZE
         /\ reqs[i].size > 0
         /\ i < Len(reqs) => reqs[i].size = CHUNK_SIZE
         /\ i = Len(reqs) => reqs[i].offset + reqs[i].size = len
         /\ reqs[i].size <= CHUNK_SIZE

----------------------------------------------------------------------------
(* The shared Stats: SpecStats. Threads add to the counters (inc, elapsed, *)
(* the drop of a Timer) while other threads render the Stats with Display. *)
(* Every load, store and fetch_add of an atomic is one step.               *)

\* how many updates (inc, elapsed) the counters receive
MaxUpdates == 2

\* how many threads render the Stats, each of them once
MaxRenders == 2

MICROS_IN_SEC == 1000000

CounterNames == {"hashing", "packing"}
Renderers == 1 .. MaxRenders

\* rayon::current_num_threads()
RayonThreads == {1, 2, 4}

\* the bytes handed to inc and the microseconds handed to elapsed
IncValues == {1, 1000}
ElapsedValues == {40000, 4 * MICROS_IN_SEC}

\* AtomicU64::fetch_add on one field of a counter
fetch_add(counters, c, field, n) == [counters EXCEPT ![c][field] = @ + n]

\* "{:.2}s" of micros / MICROS_IN_SEC: the seconds in hundredths, rounded
Secs2(micros) == (micros + 5000) \div 10000

\* Counter::to_bytes_string: the duration, and the bytes per second (all
\* the bytes when no time was taken)
to_bytes_string(counter) ==
    [secs |-> Secs2(counter.micros),
     rate |-> IF counter.micros = 0 THEN counter.counter
              ELSE (counter.counter * MICROS_IN_SEC) \div counter.micros]

NotShown == [shown |-> FALSE, secs |-> 0, rate |-> 0]
Shown(text) == [shown |-> TRUE, secs |-> text.secs, rate |-> text.rate]

ZeroCounter == [counter |-> 0, micros |-> 0]

InitStats ==
    /\ DiffIdle /\ EqIdle /\ EnvIdle /\ PackIdle /\ RunIdle /\ StatsAlone
    /\ reading = [state |-> "idle"]
    /\ sized = [done |-> FALSE]
    /\ detected = [done |-> FALSE]
    /\ \E n \in RayonThreads :
         stats = [stage |-> "shared", num_threads |-> n,
                  counters |-> [c \in CounterNames |-> ZeroCounter],
                  added |-> [c \in CounterNames |-> ZeroCounter],
                  updates |-> 0, decreased |-> FALSE, stored |-> FALSE,
                  at |-> [r \in Renderers |-> "idle"],
                  loaded |-> [r \in Renderers |-> 0],
                  began |-> [r \in Renderers |-> 0],
                  rendered |-> <<>>]

\* Counter::inc(n), also through Timer::bytes
Inc ==
    /\ stats.stage = "shared"
    /\ stats.updates < MaxUpdates
    /\ \E c \in CounterNames, n \in IncValues :
         stats' = [stats EXCEPT
                     !.counters = fetch_add(@, c, "counter", n),
                     !.added = fetch_add(@, c, "counter", n),
                     !.updates = @ + 1]
    /\ UNCHANGED <<envVars, statsRest>>

\* Counter::elapsed(duration), also through the drop of a Timer
Elapsed ==
    /\ stats.stage = "shared"
    /\ stats.updates < MaxUpdates
    /\ \E c \in CounterNames, d \in ElapsedValues :
         stats' = [stats EXCEPT
                     !.counters = fetch_add(@, c, "micros", d),
                     !.added = fetch_add(@, c, "micros", d),
                     !.updates = @ + 1]
    /\ UNCHANGED <<envVars, statsRest>>

\* Display::fmt begins: hashing.is_empty(), and if it is not empty the
\* load of fit_to_rayon_threads
RenderLoad ==
    /\ stats.stage = "shared"
    /\ \E r \in Renderers :
         /\ stats.at[r] = "idle"
         /\ stats' = [stats EXCEPT
                        !.at[r] = IF stats.counters["hashing"].counter = 0
                                  THEN "skipped" ELSE "loaded",
                        !.loaded[r] = stats.counters["hashing"].micros,
                        !.began[r] = stats.updates]
    /\ UNCHANGED <<envVars, statsRest>>

\* fit_to_rayon_threads: micros / threads is stored
RenderStore ==
    /\ stats.stage = "shared"
    /\ \E r \in Renderers :
         /\ stats.at[r] = "loaded"
         /\ LET micros == stats.loaded[r] \div stats.num_threads
            IN stats' = [stats EXCEPT
                           !.counters["hashing"].micros = micros,
                           !.decreased = @ \/ micros < stats.counters["hashing"].micros,
                           !.stored = TRUE,
                           !.at[r] = "stored"]
    /\ UNCHANGED <<envVars, statsRest>>

\* the rest of Display::fmt: to_bytes_string of hashing, and packing if it
\* is not empty
RenderWrite ==
    /\ stats.stage = "shared"
    /\ \E r \in Renderers :
         /\ stats.at[r] \in {"stored", "skipped"}
         /\ stats' = [stats EXCEPT
                        !.at[r] = "done",
                        !.rendered = Append(@,
                           [hashing |-> IF stats.at[r] = "skipped" THEN NotShown
                                        ELSE Shown(to_bytes_string(stats.counters["hashing"])),
                            packing |-> IF stats.counters["packing"].counter = 0
                                        THEN NotShown
                                        ELSE Shown(to_bytes_string(stats.counters["packing"])),
                            began |-> stats.began[r],
                            ended |-> stats.updates])]
    /\ UNCHANGED <<envVars, statsRest>>

NextStats == Inc \/ Elapsed \/ RenderLoad \/ RenderStore \/ RenderWrite

SpecStats == InitStats /\ [][NextStats]_vars

\* no counter was updated from the beginning of the renderings i and j to
\* the end of both
NoUpdateBetween(i, j) ==
    /\ stats.rendered[i].began = stats.rendered[i].ended
    /\ stats.rendered[j].began = stats.rendered[j].ended
    /\ stats.rendered[i].began = stats.rendered[j].began

\* C27: under any interleaving of inc, elapsed, timer release and rendering
\* of Stats from several threads, each counter's byte/op count and its
\* cumulative microseconds never decrease and lose no update (they are the
\* sums of what was added), every update is an atomic fetch-add, and
\* rendering the stats twice reports the same hashing duration.
C27_StatsMonotonic ==
    stats.stage = "shared"
    => /\ ~stats.decreased
       /\ ~stats.stored
       /\ \A c \in CounterNames : stats.counters[c] = stats.added[c]
       /\ \A i, j \in DOMAIN stats.rendered :
            (i < j /\ NoUpdateBetween(i, j))
            => stats.rendered[i].hashing = stats.rendered[j].hashing

\* what does hold: the byte counts of both counters and the microseconds
\* of packing are the sums of what was added, and packing is rendered the
\* same twice
C27_PackingMonotonic ==
    stats.stage = "shared"
    => /\ stats.counters["packing"] = stats.added["packing"]
       /\ stats.counters["hashing"].counter = stats.added["hashing"].counter
       /\ \A i, j \in DOMAIN stats.rendered :
            (i < j /\ NoUpdateBetween(i, j))
            => stats.rendered[i].packing = stats.rendered[j].packing

----------------------------------------------------------------------------
(* Pull, then push on the tree the pull restored.                          *)

\* nothing lies inside the roots: each root is missing or an empty
\* directory
RootsEmpty(f, dirs) ==
    \A k \in DOMAIN dirs, p \in DOMAIN f :
        starts_with(p, dirs[k]) => (p = dirs[k] /\ f[p].kind = "d")

\* run i is a pull without prefix that restored an archive (one entry of it
\* at least) into empty roots, and run i + 1 a push on the tree as the pull
\* left it
PullThenPush(i) ==
    /\ runs[i].cmd = "pull" /\ runs[i].ok /\ runs[i].found
    /\ read_cached_entries(runs[i].work.cached_entries).entries # <<>>
    /\ ~prefixArg.some
    /\ RootsEmpty(runs[i].before, runs[i].args)
    /\ runs[i + 1].cmd = "push"
    /\ ~edited[i + 1]

\* the push found nothing changed and built nothing
NoOpPush(r) ==
    /\ r.ok /\ r.walked
    /\ diff(r.previous, r.current) = {}
    /\ ~r.changed
    /\ ~r.built

\* C28: after a pull (no prefix) has restored an archive into roots that
\* were empty before the pull, a push run with no intervening filesystem
\* change finds diff(previous, current) empty and does not rebuild the
\* snapshot; this holds for every list of roots, also when one root lies
\* inside another.
C28_PullThenPushNoOp ==
    \A i \in 1 .. Len(runs) - 1 : PullThenPush(i) => NoOpPush(runs[i + 1])

\* what does hold: the same when no path was archived twice, that is when
\* no root lies inside another
C28_PullThenPushDistinct ==
    \A i \in 1 .. Len(runs) - 1 :
        (PullThenPush(i) /\ DistinctPaths(runs[i + 1].previous))
        => NoOpPush(runs[i + 1])

----------------------------------------------------------------------------
(* Unpack::unpack on archives as they may be written, into a destination   *)
(* that holds other things, once and once more: SpecUnpack. The archives   *)
(* are streams written through Writing; their entries are those of a tree  *)
(* of directories, files and symlinks, or entries whose path holds ".."    *)
(* components.                                                             *)

\* the archive entries (with the payload of a file) a pack of /1 may write
PackedItems ==
    <<[entry |-> EntryFile(<<1, 1>>, Attributes(S_IFREG + Perm644, 0, 0),
                           md5_bytes(<<7>>), 1),
       bytes |-> <<7>>],
      [entry |-> EntryFile(<<1, 2>>, Attributes(S_IFREG + Perm444, 0, 0),
                           md5_bytes(<<>>), 0),
       bytes |-> <<>>],
      [entry |-> EntrySymlink(<<1, 3>>, <<2>>, Attributes(S_IFLNK + Perm777, 0, 0)),
       bytes |-> <<>>],
      [entry |-> EntryDir(<<1, 4>>, Attributes(S_IFDIR + Perm755, 0, 0)),
       bytes |-> <<>>],
      [entry |-> EntryFile(<<1, 4, 1>>, Attributes(S_IFREG + Perm644, 0, 0),
                           md5_bytes(<<8, 8>>), 2),
       bytes |-> <<8, 8>>]>>

\* entries with ".." in their path: /1/../../2/7 and /1/../../2/1
DotDotItems ==
    {[entry |-> EntryDir(<<1, DotDot, DotDot, 2, 7>>,
                         Attributes(S_IFDIR + Perm755, 0, 0)),
      bytes |-> <<>>],
     [entry |-> EntryFile(<<1, DotDot, DotDot, 2, 1>>,
                          Attributes(S_IFREG + Perm644, 0, 0), md5_bytes(<<6>>), 1),
      bytes |-> <<6>>],
     [entry |-> EntrySymlink(<<1, DotDot, DotDot, 2, 8>>, <<1>>,
                             Attributes(S_IFLNK + Perm777, 0, 0)),
      bytes |-> <<>>]}

\* the elements of s whose position is in keep, in order
Pick(s, keep) == SelectSeq([i \in DOMAIN s |-> IF i \in keep THEN <<s[i]>> ELSE <<>>],
                           LAMBDA x : x # <<>>)

Unwrap(s) == [i \in DOMAIN s |-> s[i][1]]

\* the archives: /1 and any of the packed entries below it, and /1 with one
\* entry whose path holds ".."
ArchiveItems ==
    {<<ItemDir>> \o Unwrap(Pick(PackedItems, keep)) :
        keep \in SUBSET DOMAIN PackedItems}
    \cup {<<ItemDir, x>> : x \in DotDotItems}

\* the destination: /2 with a file, and the empty directory /9
Destination ==
    MakeFs({<<R2, DirNode(Perm755)>>, <<R21, FileNode(Perm644, <<5>>)>>,
            <<PrefixDir, DirNode(Perm755)>>})

NoUnpack == [done |-> FALSE]

InitUnpack ==
    /\ DiffIdle /\ EqIdle /\ PackIdle /\ RunIdle /\ UnpackAlone
    /\ reading = [state |-> "idle"]
    /\ sized = [done |-> FALSE]
    /\ detected = [done |-> FALSE]
    /\ tree = Destination
    /\ clock = 1
    /\ privileged \in BOOLEAN
    /\ atimeUpdates = FALSE
    /\ \E items \in ArchiveItems, prefix \in Prefixes :
         unpacking = [stage |-> "packed", items |-> items,
                      data |-> WriteItems(write_version(<<>>), items),
                      prefix |-> prefix, dirs |-> <<R1>>,
                      before |-> Destination, first |-> NoUnpack,
                      between |-> Destination, second |-> NoUnpack,
                      after |-> Destination]

\* what an unpack returned and what it wrote to
Unpacked(u) ==
    [done |-> TRUE, ok |-> u.ok, entries |-> u.entries, read |-> u.read,
     touched |-> u.touched]

\* the job once the first unpack returned u, and once the second did
FirstUnpack(job, u) ==
    [job EXCEPT !.stage = "once", !.first = Unpacked(u), !.between = u.fs,
                !.after = u.fs]

SecondUnpack(job, u) ==
    [job EXCEPT !.stage = "twice", !.second = Unpacked(u), !.after = u.fs]

\* Reading::open(file) then snapshot.unpack(prefix, &dirs)
UnpackArchive ==
    /\ unpacking.stage = "packed"
    /\ unpacking' = FirstUnpack(
           unpacking,
           unpack(check_version(Reader(unpacking.data, FALSE)).rd, tree,
                  unpacking.prefix, unpacking.dirs, clock, privileged))
    /\ tree' = unpacking'.between
    /\ UNCHANGED <<clock, privileged, atimeUpdates, unpackRest>>

\* the same archive is unpacked again into what the first unpack left
UnpackAgain ==
    /\ unpacking.stage = "once"
    /\ unpacking.first.ok
    /\ unpacking' = SecondUnpack(
           unpacking,
           unpack(check_version(Reader(unpacking.data, FALSE)).rd, tree,
                  unpacking.prefix, unpacking.dirs, clock, privileged))
    /\ tree' = unpacking'.after
    /\ UNCHANGED <<clock, privileged, atimeUpdates, unpackRest>>

NextUnpack == UnpackArchive \/ UnpackAgain

SpecUnpack == InitUnpack /\ [][NextUnpack]_vars

\* the paths at which tree g differs from tree f: created, removed or
\* modified (bytes, mode, times, target, kind)
TreeChanges(f, g) ==
    {p \in DOMAIN f \cup DOMAIN g :
        p \notin DOMAIN f \/ p \notin DOMAIN g \/ f[p] # g[p]}

\* C29: prefix confinement. For any archive stream that unpack accepts and
\* any prefix P, every path that unpack creates or modifies (directory,
\* symlink, file, attribute change) lies under P; no entry path, however
\* it is written in the archive (leading "/", ".." components), makes
\* unpack write outside P.
C29_PrefixConfinement ==
    (unpacking.stage = "once" /\ unpacking.first.ok /\ unpacking.prefix.some)
    => /\ \A p \in unpacking.first.touched : starts_with(p, unpacking.prefix.path)
       /\ \A p \in TreeChanges(unpacking.before, tree) :
            starts_with(p, unpacking.prefix.path)

\* what does hold: the same for the archives without ".." in a path
C29_PrefixConfinementPacked ==
    (/\ unpacking.stage = "once" /\ unpacking.first.ok /\ unpacking.prefix.some
     /\ \A i \in DOMAIN unpacking.items :
          \A k \in DOMAIN unpacking.items[i].entry.path :
              unpacking.items[i].entry.path[k] # DotDot)
    => /\ \A p \in unpacking.first.touched : starts_with(p, unpacking.prefix.path)
       /\ \A p \in TreeChanges(unpacking.before, tree) :
            starts_with(p, unpacking.prefix.path)

\* a node without its timestamps
Timeless(node) == [node EXCEPT !.atime = 0, !.mtime = 0]

\* C30: unpacking the same archive a second time into a destination that
\* already holds the result of the first unpack succeeds and leaves the
\* same tree (same entries, bytes, modes and symlink targets), for
\* archives containing any mix of directories, files and symlinks.
C30_UnpackIdempotent ==
    unpacking.stage = "twice"
    => /\ unpacking.second.ok
       /\ unpacking.second.entries = unpacking.first.entries
       /\ DOMAIN tree = DOMAIN unpacking.between
       /\ \A p \in DOMAIN tree : Timeless(tree[p]) = Timeless(unpacking.between[p])

\* what does hold: the same for a privileged process and an archive
\* without symlinks
C30_UnpackIdempotentPlain ==
    (/\ unpacking.stage = "twice"
     /\ privileged
     /\ \A i \in DOMAIN unpacking.items : unpacking.items[i].entry.t # "s")
    => /\ unpacking.second.ok
       /\ unpacking.second.entries = unpacking.first.entries
       /\ DOMAIN tree = DOMAIN unpacking.between
       /\ \A p \in DOMAIN tree : Timeless(tree[p]) = Timeless(unpacking.between[p])

====
